---- MODULE Spec2Model ----
(***************************************************************************)
(* Match engine of the card game: GameState, GameController,               *)
(* PlayerController, AIController, Player, Deck and Card.                  *)
(*                                                                         *)
(* Card objects are shared: Deck.from_dict, Deck.create_starter_deck and   *)
(* create_ai_deck put the card database's own Card objects into the decks, *)
(* so every copy of a card id, in either player's deck, hand or field, is  *)
(* one object with one hp.  The model keeps that hp in card_hp, indexed by *)
(* card id, and decks, hands and fields hold card ids.                     *)
(***************************************************************************)
EXTENDS Integers, Sequences, FiniteSets, TLC

\* ---------------------------------------------------------------- constants
PLAYER_STARTING_HEALTH == 10
PLAYER_MAX_ENERGY == 3
PLAYER_FIELD_SIZE == 3
PLAYER_STARTING_HAND_SIZE == 4
VICTORY_REWARD_EASY == 20
VICTORY_REWARD_NORMAL == 25
VICTORY_REWARD_HARD == 30
InitialCredits == 50
CARD_CONVERSION_COMMON == 1
CARD_CONVERSION_UNCOMMON == 3
CARD_CONVERSION_RARE == 5
CARD_CONVERSION_EPIC == 10
\* add_to_collection's limit of copies owned
max_copies == 3
MAX_DECK_SIZE == 30
MAX_COPIES_PER_CARD == 3

\* ------------------------------------------------------------------- bounds
\* advance_phase is called at most MaxAdvances times in a match
MaxAdvances == 8
\* the victory reward is paid at most MaxRewards times (process_turn repeated
\* in the attack phase after the match has ended)
MaxRewards == 3
\* the longest deck the deck operations are tried on, besides the decks at the
\* size limit
MaxDeckLen == 4
\* add_to_collection is called until the credits from converted cards reach
\* MaxConverted
MaxConverted == 6

\* ------------------------------------------------------------ card database
NONE == "None"
CardIds == {"scout", "giant", "knight", "imp"}
CardCost == [scout |-> 2, giant |-> 3, knight |-> 3, imp |-> 1]
CardAttack == [scout |-> 4, giant |-> 7, knight |-> 5, imp |-> 3]
CardHp == [scout |-> 3, giant |-> 2, knight |-> 5, imp |-> 2]
CardRarity == [scout |-> "common", giant |-> "rare", knight |-> "epic", imp |-> "common"]
\* the ids a collection is asked about: the card database's and one it lacks
CollectionIds == CardIds \cup {"ghost"}
\* Player.collection of a new player: no copy of any card
NoCards == [id \in CollectionIds |-> 0]

\* the matches set up: the decks the two players are constructed with, the
\* difficulty the opponent's controller is created for and the opponent's
\* display name, as a sequence of words (create_ai_opponent names the opponent
\* after the difficulty; a Player built directly can have any name)
Matches == { [player |-> <<"scout", "knight">>, opponent |-> <<"giant", "imp">>,
              difficulty |-> "normal", name |-> <<"Normal", "AI", "Opponent">>],
             [player |-> <<"imp">>, opponent |-> <<"knight">>, difficulty |-> "easy",
              name |-> <<"Opponent">>],
             [player |-> <<"scout">>, opponent |-> <<"scout">>, difficulty |-> "easy",
              name |-> <<"Easy", "AI", "Opponent">>],
             [player |-> <<"scout", "scout", "scout", "scout", "scout">>,
              opponent |-> <<"imp", "imp", "imp", "imp", "imp">>, difficulty |-> "hard",
              name |-> <<"Hard", "AI", "Opponent">>],
             [player |-> <<"giant", "giant", "giant", "giant", "giant", "knight">>,
              opponent |-> <<"imp">>, difficulty |-> "hard",
              name |-> <<"Hard", "AI", "Opponent">>] }
\* health and energy a saved player is loaded with
SavedHealth == {0, PLAYER_STARTING_HEALTH}
SavedEnergy == {0, PLAYER_MAX_ENERGY}

Players == {0, 1}
Slots == 0 .. (PLAYER_FIELD_SIZE - 1)
Phases == <<"DRAW", "PLAY", "ATTACK", "END">>
PhaseIndex(ph) == CHOOSE i \in 1 .. Len(Phases) : Phases[i] = ph
Max(a, b) == IF a >= b THEN a ELSE b
Min(a, b) == IF a <= b THEN a ELSE b

VARIABLES
    stage,                  \* how far the driver's set-up of the match has got
    difficulty,             \* the difficulty the opponent was created for
    opponent_name,          \* the opponent's display name, a sequence of words
    personality,            \* the personality its controller was created with
    current_player_index,
    current_phase,
    turn_number,
    game_over,
    winner,                 \* NONE, "player" or "opponent"
    health,                 \* per player
    energy,
    hand,                   \* per player, a sequence of card ids
    field,                  \* per player, slot -> card id or NONE
    deck,                   \* per player, a sequence of card ids, top first
    credits,
    collection,             \* per player, card id -> copies owned
    card_hp,                \* hp of the Card object of each card id
    advances,               \* advance_phase calls since start_game
    lastOp,                 \* the operation that produced this state
    ret,                    \* what it returned
    events                  \* the event list it returned

vars == <<stage, difficulty, opponent_name, personality, current_player_index, current_phase, turn_number, game_over,
          winner, health, energy, hand, field, deck, credits, collection, card_hp, advances, lastOp,
          ret, events>>
gameVars == <<current_player_index, current_phase, turn_number, game_over, winner>>
setupVars == <<stage, difficulty, opponent_name, personality>>
playerVars == <<health, energy, hand, field, deck, credits, collection>>

max_health == [p \in Players |-> PLAYER_STARTING_HEALTH]
max_energy == [p \in Players |-> PLAYER_MAX_ENERGY]
EmptyField == [s \in Slots |-> NONE]
Ret(ok, msg) == [ok |-> ok, msg |-> msg]

\* ---------------------------------------------------------------- Card, Deck
\* Card.take_damage reporting the whole damage as excess
CardTakeDamageAllExcess(hp, damage) ==
    LET h == hp - damage
    IN  IF h < 0 THEN [hp |-> 0, excess |-> damage] ELSE [hp |-> h, excess |-> 0]

\* Card.take_damage leaving the hp below 0
CardTakeDamageNoFloor(hp, damage) ==
    LET h == hp - damage
    IN  IF h < 0 THEN [hp |-> h, excess |-> -h] ELSE [hp |-> h, excess |-> 0]

\* Card.is_alive
CardIsAlive(hp) == hp > 0

\* Card.take_damage: the new hp and the excess returned
CardTakeDamage(hp, damage) ==
    LET h == hp - damage
    IN  IF h < 0 THEN [hp |-> 0, excess |-> -h] ELSE [hp |-> h, excess |-> 0]

\* random.shuffle: every ordering of the same cards
Shuffles(seq) ==
    { [i \in 1 .. Len(seq) |-> seq[f[i]]] :
        f \in { g \in [1 .. Len(seq) -> 1 .. Len(seq)] :
                  \A i, j \in 1 .. Len(seq) : i # j => g[i] # g[j] } }

\* Deck.draw taking the card at the bottom of the deck
DeckDrawBottom(cards) ==
    IF cards = <<>> THEN [card |-> NONE, cards |-> cards]
    ELSE [card |-> cards[Len(cards)], cards |-> SubSeq(cards, 1, Len(cards) - 1)]

\* Deck.draw returning the top card and leaving it in the deck
DeckDrawPeek(cards) ==
    IF cards = <<>> THEN [card |-> NONE, cards |-> cards]
    ELSE [card |-> Head(cards), cards |-> cards]

\* Deck.draw: the top card, removed from the deck; None from an empty deck
DeckDraw(cards) ==
    IF cards = <<>> THEN [card |-> NONE, cards |-> cards]
    ELSE [card |-> Head(cards), cards |-> Tail(cards)]

\* the loop of draw_hand: n calls of draw, each card obtained appended to the
\* list that is returned
RECURSIVE DrawTimes(_, _)
DrawTimes(cards, n) ==
    IF n = 0 THEN [drawn |-> <<>>, cards |-> cards]
    ELSE LET r == DrawTimes(cards, n - 1)
             d == DeckDraw(r.cards)
         IN  [drawn |-> IF d.card # NONE THEN Append(r.drawn, d.card) ELSE r.drawn,
              cards |-> d.cards]

\* Deck.draw_hand(count): range(min(count, size)) calls of draw
DeckDrawHand(cards, count) == DrawTimes(cards, Max(0, Min(count, Len(cards))))

\* Deck.add_card: whether the card was added, and the cards of the deck after
DeckAddCard(cards, card) ==
    IF Len(cards) >= MAX_DECK_SIZE THEN [ok |-> FALSE, cards |-> cards]
    ELSE IF Cardinality({i \in 1 .. Len(cards) : cards[i] = card}) >= MAX_COPIES_PER_CARD
    THEN [ok |-> FALSE, cards |-> cards]
    ELSE [ok |-> TRUE, cards |-> Append(cards, card)]

\* Deck.validate
DeckValidate(cards) ==
    IF Len(cards) < 1 THEN Ret(FALSE, "Deck must contain at least 1 card")
    ELSE IF Len(cards) > MAX_DECK_SIZE
    THEN Ret(FALSE, "Deck cannot contain more than 30 cards")
    ELSE IF \E c \in CardIds :
                Cardinality({i \in 1 .. Len(cards) : cards[i] = c}) > MAX_COPIES_PER_CARD
    THEN Ret(FALSE, "Deck cannot contain more than 3 copies of a card")
    ELSE Ret(TRUE, "Deck is valid")

\* ------------------------------------------------------------------- Player
\* Player.draw_card of a player with hand hd and deck dk
PlayerDrawCard(hd, dk) ==
    LET d == DeckDraw(dk)
    IN  [card |-> d.card,
         hand |-> IF d.card # NONE THEN Append(hd, d.card) ELSE hd,
         deck |-> d.cards]

\* the credits add_to_collection gives for one excess card of a rarity
ConversionRate(rarity) ==
    CASE rarity = "common" -> CARD_CONVERSION_COMMON
      [] rarity = "uncommon" -> CARD_CONVERSION_UNCOMMON
      [] rarity = "rare" -> CARD_CONVERSION_RARE
      [] rarity = "epic" -> CARD_CONVERSION_EPIC
      [] OTHER -> 1

\* add_to_collection that adds every card it is given
AddToCollectionUncapped(owned, card_id, quantity) ==
    [owned |-> owned + Max(0, quantity), to_add |-> quantity, credits_earned |-> 0]

\* Player.add_to_collection(card_id, quantity) for a player who owns `owned`
\* copies: the copies owned afterwards and the pair it returns
AddToCollectionResult(owned, card_id, quantity) ==
    LET can_add == Max(0, max_copies - owned)
        to_add == Min(quantity, can_add)
        to_convert == quantity - to_add
        credits_earned ==
            IF to_convert > 0 /\ card_id \in CardIds
            THEN to_convert * ConversionRate(CardRarity[card_id])
            ELSE 0
    IN  [owned |-> IF to_add > 0 THEN owned + to_add ELSE owned,
         to_add |-> to_add, credits_earned |-> credits_earned]

\* Player.take_damage without the floor at 0
PlayerTakeDamageNoFloor(h, damage) == h - damage

\* Player.is_alive taking health 0 for alive
PlayerIsAliveAtZero(h) == h >= 0

\* Player.take_damage
PlayerTakeDamage(h, damage) == Max(0, h - damage)

\* Player.is_alive
PlayerIsAlive(h) == h > 0

RemoveAt(seq, i) == SubSeq(seq, 1, i - 1) \o SubSeq(seq, i + 1, Len(seq))

\* play_card leaving the played card in the hand
PlayerPlayCardKeepsHand(en, hd, fd, hand_index, field_index) ==
    LET same(msg) == [ok |-> FALSE, msg |-> msg, energy |-> en, hand |-> hd, field |-> fd]
    IN  IF ~(0 <= hand_index /\ hand_index < Len(hd)) THEN same("Invalid hand index")
        ELSE IF ~(0 <= field_index /\ field_index < PLAYER_FIELD_SIZE) THEN same("Invalid field index")
        ELSE IF fd[field_index] # NONE THEN same("Field position already occupied")
        ELSE IF en < CardCost[hd[hand_index + 1]] THEN same("Not enough energy")
        ELSE [ok |-> TRUE, msg |-> "Card played successfully",
              energy |-> en - CardCost[hd[hand_index + 1]],
              hand |-> hd,
              field |-> [fd EXCEPT ![field_index] = hd[hand_index + 1]]]

\* play_card without the energy check
PlayerPlayCardNoEnergyCheck(en, hd, fd, hand_index, field_index) ==
    LET same(msg) == [ok |-> FALSE, msg |-> msg, energy |-> en, hand |-> hd, field |-> fd]
    IN  IF ~(0 <= hand_index /\ hand_index < Len(hd)) THEN same("Invalid hand index")
        ELSE IF ~(0 <= field_index /\ field_index < PLAYER_FIELD_SIZE) THEN same("Invalid field index")
        ELSE IF fd[field_index] # NONE THEN same("Field position already occupied")
        ELSE [ok |-> TRUE, msg |-> "Card played successfully",
              energy |-> en - CardCost[hd[hand_index + 1]],
              hand |-> RemoveAt(hd, hand_index + 1),
              field |-> [fd EXCEPT ![field_index] = hd[hand_index + 1]]]

\* play_card looking at the energy before the target slot
PlayerPlayCardEnergyFirst(en, hd, fd, hand_index, field_index) ==
    LET same(msg) == [ok |-> FALSE, msg |-> msg, energy |-> en, hand |-> hd, field |-> fd]
    IN  IF ~(0 <= hand_index /\ hand_index < Len(hd)) THEN same("Invalid hand index")
        ELSE IF ~(0 <= field_index /\ field_index < PLAYER_FIELD_SIZE) THEN same("Invalid field index")
        ELSE IF en < CardCost[hd[hand_index + 1]] THEN same("Not enough energy")
        ELSE IF fd[field_index] # NONE THEN same("Field position already occupied")
        ELSE [ok |-> TRUE, msg |-> "Card played successfully",
              energy |-> en - CardCost[hd[hand_index + 1]],
              hand |-> RemoveAt(hd, hand_index + 1),
              field |-> [fd EXCEPT ![field_index] = hd[hand_index + 1]]]

\* play_card that takes no energy for the card
PlayerPlayCardFree(en, hd, fd, hand_index, field_index) ==
    LET same(msg) == [ok |-> FALSE, msg |-> msg, energy |-> en, hand |-> hd, field |-> fd]
    IN  IF ~(0 <= hand_index /\ hand_index < Len(hd)) THEN same("Invalid hand index")
        ELSE IF ~(0 <= field_index /\ field_index < PLAYER_FIELD_SIZE) THEN same("Invalid field index")
        ELSE IF fd[field_index] # NONE THEN same("Field position already occupied")
        ELSE IF en < CardCost[hd[hand_index + 1]] THEN same("Not enough energy")
        ELSE [ok |-> TRUE, msg |-> "Card played successfully",
              energy |-> en,
              hand |-> RemoveAt(hd, hand_index + 1),
              field |-> [fd EXCEPT ![field_index] = hd[hand_index + 1]]]

\* Player.play_card(hand_index, field_index) of a player with energy en, hand hd
\* and field fd; indices are Python's, from 0
PlayerPlayCard(en, hd, fd, hand_index, field_index) ==
    LET same(msg) == [ok |-> FALSE, msg |-> msg, energy |-> en, hand |-> hd, field |-> fd]
    IN  IF ~(0 <= hand_index /\ hand_index < Len(hd)) THEN same("Invalid hand index")
        ELSE IF ~(0 <= field_index /\ field_index < PLAYER_FIELD_SIZE) THEN same("Invalid field index")
        ELSE IF fd[field_index] # NONE THEN same("Field position already occupied")
        ELSE IF en < CardCost[hd[hand_index + 1]] THEN same("Not enough energy")
        ELSE [ok |-> TRUE, msg |-> "Card played successfully",
              energy |-> en - CardCost[hd[hand_index + 1]],
              hand |-> RemoveAt(hd, hand_index + 1),
              field |-> [fd EXCEPT ![field_index] = hd[hand_index + 1]]]

\* ---------------------------------------------------------------- GameState
\* the opponent's display name carries the difficulty it was created for
\* (create_ai_opponent); the reward tier is read back from the name
Lower(w) ==
    CASE w = "Easy" -> "easy" [] w = "Normal" -> "normal" [] w = "Hard" -> "hard"
      [] w = "AI" -> "ai" [] w = "Opponent" -> "opponent"
      [] w = "EASY" -> "easy" [] w = "NORMAL" -> "normal" [] w = "HARD" -> "hard"
      [] w = "Expert" -> "expert" [] OTHER -> w
NameContains(name, marker) == \E i \in 1 .. Len(name) : Lower(name[i]) = marker
OpponentNameMarker(name) ==
    IF NameContains(name, "easy") THEN "easy"
    ELSE IF NameContains(name, "hard") THEN "hard"
    ELSE "normal"

\* check_game_over looking at the opponent before the player
CheckGameOverOpponentFirst(h, over, win) ==
    IF ~(h[1] > 0) THEN [game_over |-> TRUE, winner |-> "player", ret |-> TRUE]
    ELSE IF ~(h[0] > 0) THEN [game_over |-> TRUE, winner |-> "opponent", ret |-> TRUE]
    ELSE [game_over |-> over, winner |-> win, ret |-> FALSE]

\* GameState.check_game_over on the healths h: the new game_over and winner,
\* and the value returned
CheckGameOverOn(h, over, win) ==
    IF ~PlayerIsAlive(h[0]) THEN [game_over |-> TRUE, winner |-> "opponent", ret |-> TRUE]
    ELSE IF ~PlayerIsAlive(h[1]) THEN [game_over |-> TRUE, winner |-> "player", ret |-> TRUE]
    ELSE [game_over |-> over, winner |-> win, ret |-> FALSE]

\* GameState.next_phase with next_turn: the state after one advance
NextPhaseOf(ph) == Phases[(PhaseIndex(ph) % Len(Phases)) + 1]
NextTurnIndex(i) == 1 - i
\* next_turn counting a turn at every change of player
NextTurnNumberEveryFlip(t, newIndex) == t + 1
NextTurnNumber(t, newIndex) == IF newIndex = 0 THEN t + 1 ELSE t
\* next_turn resetting the energy of both players
NextTurnEnergyBoth(en, newIndex) == [p \in DOMAIN en |-> PLAYER_MAX_ENERGY]
\* Player.reset_energy of the newly active player
NextTurnEnergy(en, newIndex) == [en EXCEPT ![newIndex] = max_energy[newIndex]]

\* ----------------------------------------------------------- GameController
\* The combat state an attack phase works on.
World == [health |-> health, field |-> field, card_hp |-> card_hp, events |-> <<>>]

\* the attacker's card hits the player: no card in the defender's slot
DirectAttack(w, att, slot) ==
    LET def == 1 - att
        card == w.field[att][slot]
    IN  [w EXCEPT
           !.health[def] = PlayerTakeDamage(@, CardAttack[card]),
           !.events = @ \o <<[type |-> "player_damage", player |-> def,
                              damage |-> CardAttack[card], source |-> card,
                              excess |-> FALSE]>>]

\* the attacker's card hits the defender's card; a destroyed card leaves its
\* slot and the excess goes to its player
AttackCard(w, att, slot) ==
    LET def == 1 - att
        card == w.field[att][slot]
        dc == w.field[def][slot]
        evAttack == [type |-> "card_attack", attacker |-> card, defender |-> dc,
                     attack_damage |-> CardAttack[card], slot |-> slot]
        td == CardTakeDamage(w.card_hp[dc], CardAttack[card])
        hp1 == [w.card_hp EXCEPT ![dc] = td.hp]
    IN  IF ~CardIsAlive(hp1[dc])
        THEN [w EXCEPT
                !.card_hp = hp1,
                !.field[def][slot] = NONE,
                !.health[def] = IF td.excess > 0 THEN PlayerTakeDamage(@, td.excess) ELSE @,
                !.events = @ \o <<evAttack,
                                  [type |-> "card_destroyed", card |-> dc, slot |-> slot]>>
                             \o (IF td.excess > 0
                                 THEN <<[type |-> "player_damage", player |-> def,
                                         damage |-> td.excess, source |-> card,
                                         excess |-> TRUE]>>
                                 ELSE <<>>)]
        ELSE [w EXCEPT !.card_hp = hp1, !.events = @ \o <<evAttack>>]

\* a counter-attack whose overkill goes on to the attacking player
CounterAttackBleeding(w, att, slot, dc) ==
    LET card == w.field[att][slot]
        td == CardTakeDamage(w.card_hp[card], CardAttack[dc])
        hp2 == [w.card_hp EXCEPT ![card] = td.hp]
        evCounter == [type |-> "card_counter_attack", attacker |-> dc, defender |-> card,
                      attack_damage |-> CardAttack[dc], slot |-> slot]
    IN  IF ~(hp2[card] > 0)
        THEN [w EXCEPT
                !.card_hp = hp2,
                !.field[att][slot] = NONE,
                !.health[att] = IF td.excess > 0 THEN Max(0, @ - td.excess) ELSE @,
                !.events = @ \o <<evCounter,
                                  [type |-> "card_destroyed", card |-> card, slot |-> slot]>>]
        ELSE [w EXCEPT !.card_hp = hp2, !.events = @ \o <<evCounter>>]

\* a counter-attack that reports the destroyed attacker and leaves it in its slot
CounterAttackKeepingCard(w, att, slot, dc) ==
    LET card == w.field[att][slot]
        hp2 == [w.card_hp EXCEPT ![card] = CardTakeDamage(@, CardAttack[dc]).hp]
        evCounter == [type |-> "card_counter_attack", attacker |-> dc, defender |-> card,
                      attack_damage |-> CardAttack[dc], slot |-> slot]
    IN  IF ~CardIsAlive(hp2[card])
        THEN [w EXCEPT
                !.card_hp = hp2,
                !.events = @ \o <<evCounter,
                                  [type |-> "card_destroyed", card |-> card, slot |-> slot]>>]
        ELSE [w EXCEPT !.card_hp = hp2, !.events = @ \o <<evCounter>>]

\* the defender's card dc, still alive, hits back; a destroyed attacker leaves
\* its slot
CounterAttack(w, att, slot, dc) ==
    LET card == w.field[att][slot]
        hp2 == [w.card_hp EXCEPT ![card] = CardTakeDamage(@, CardAttack[dc]).hp]
        evCounter == [type |-> "card_counter_attack", attacker |-> dc, defender |-> card,
                      attack_damage |-> CardAttack[dc], slot |-> slot]
    IN  IF ~CardIsAlive(hp2[card])
        THEN [w EXCEPT
                !.card_hp = hp2,
                !.field[att][slot] = NONE,
                !.events = @ \o <<evCounter,
                                  [type |-> "card_destroyed", card |-> card, slot |-> slot]>>]
        ELSE [w EXCEPT !.card_hp = hp2, !.events = @ \o <<evCounter>>]

\* a lane in which both cards always hit each other
ResolveLaneSimultaneous(w, att, slot) ==
    LET card == w.field[att][slot]
        dc == w.field[1 - att][slot]
    IN  IF card = NONE THEN w
        ELSE IF dc # NONE
        THEN CounterAttack(AttackCard(w, att, slot), att, slot, dc)
        ELSE DirectAttack(w, att, slot)

\* one lane of _handle_attack_phase: the body of the loop for one slot
ResolveLane(w, att, slot) ==
    LET card == w.field[att][slot]
        dc == w.field[1 - att][slot]
    IN  IF card = NONE THEN w
        ELSE IF dc # NONE
        THEN LET w1 == AttackCard(w, att, slot)
             IN  IF CardIsAlive(w1.card_hp[dc]) THEN CounterAttack(w1, att, slot, dc) ELSE w1
        ELSE DirectAttack(w, att, slot)

\* a loop over the lanes that stops once the defender's health is 0
RECURSIVE ResolveLanesStopEarly(_, _, _)
ResolveLanesStopEarly(w, att, n) ==
    IF n = 0 THEN w
    ELSE LET before == ResolveLanesStopEarly(w, att, n - 1)
         IN  IF before.health[1 - att] <= 0 THEN before
             ELSE ResolveLane(before, att, n - 1)

\* the loop of _handle_attack_phase over the first n slots, in slot order
RECURSIVE ResolveLanes(_, _, _)
ResolveLanes(w, att, n) ==
    IF n = 0 THEN w ELSE ResolveLane(ResolveLanes(w, att, n - 1), att, n - 1)

\* the reward _handle_attack_phase pays for a win against this opponent
VictoryReward(d) ==
    IF OpponentNameMarker(d) = "easy" THEN VICTORY_REWARD_EASY
    ELSE IF OpponentNameMarker(d) = "hard" THEN VICTORY_REWARD_HARD
    ELSE VICTORY_REWARD_NORMAL

\* an attack phase that reports game_over before it pays the reward
HandleAttackPhaseGameOverFirst(att) ==
    LET w == ResolveLanes(World, att, PLAYER_FIELD_SIZE)
        chk == CheckGameOverOn(w.health, game_over, winner)
        paid == chk.ret /\ chk.winner = "player"
    IN  [health |-> w.health, field |-> w.field, card_hp |-> w.card_hp,
         game_over |-> chk.game_over, winner |-> chk.winner,
         credits |-> IF paid THEN [credits EXCEPT ![0] = @ + VictoryReward(opponent_name)]
                     ELSE credits,
         events |-> w.events
                    \o (IF chk.ret THEN <<[type |-> "game_over", winner |-> chk.winner]>>
                        ELSE <<>>)
                    \o (IF paid
                        THEN <<[type |-> "credits_awarded", player |-> 0,
                                amount |-> VictoryReward(opponent_name),
                                difficulty |-> OpponentNameMarker(opponent_name)]>>
                        ELSE <<>>)]

\* _handle_attack_phase: all lanes, then the game-over check and the reward
HandleAttackPhase(att) ==
    LET w == ResolveLanes(World, att, PLAYER_FIELD_SIZE)
        chk == CheckGameOverOn(w.health, game_over, winner)
        paid == chk.ret /\ chk.winner = "player"
    IN  [health |-> w.health, field |-> w.field, card_hp |-> w.card_hp,
         game_over |-> chk.game_over, winner |-> chk.winner,
         credits |-> IF paid THEN [credits EXCEPT ![0] = @ + VictoryReward(opponent_name)]
                     ELSE credits,
         events |-> w.events
                    \o (IF paid
                        THEN <<[type |-> "credits_awarded", player |-> 0,
                                amount |-> VictoryReward(opponent_name),
                                difficulty |-> OpponentNameMarker(opponent_name)]>>
                        ELSE <<>>)
                    \o (IF chk.ret THEN <<[type |-> "game_over", winner |-> chk.winner]>>
                        ELSE <<>>)]

\* ------------------------------------------------------------- AIController
\* Scores are kept exact as integers: weights and scores in hundredths, a card's
\* priority as a numerator over 100 * PriorityDen.
Personalities == {"aggressive", "defensive", "balanced", "control"}

\* any personality for any difficulty
PersonalitiesForAny(d) == Personalities

\* AIController.create_for_difficulty: the personalities a controller created
\* for difficulty d can get
PersonalitiesFor(d) ==
    IF d = "easy" THEN {"balanced", "aggressive", "defensive"}
    ELSE IF d = "normal" THEN Personalities
    ELSE {"control"}

\* create_for_difficulty: the difficulty a level string stands for, NORMAL for
\* a string that is none of the three names
DifficultyOf(level) ==
    IF Lower(level) \in {"easy", "normal", "hard"} THEN Lower(level) ELSE "normal"

\* AIController.create_for_difficulty(game_state, difficulty_level): the
\* controllers it can return
CreateForDifficultyResult(level) ==
    {[difficulty |-> DifficultyOf(level), personality |-> pers] :
        pers \in PersonalitiesFor(DifficultyOf(level))}

\* _init_strategy_weights, in hundredths
BaseWeight(pers, key) ==
    IF pers = "aggressive" /\ key = "attack" THEN 20
    ELSE IF pers = "aggressive" /\ key = "direct_damage" THEN 18
    ELSE IF pers = "aggressive" /\ key = "health" THEN 7
    ELSE IF pers = "defensive" /\ key = "health" THEN 20
    ELSE IF pers = "defensive" /\ key = "board_control" THEN 15
    ELSE IF pers = "defensive" /\ key = "direct_damage" THEN 7
    ELSE IF pers = "control" /\ key = "board_control" THEN 20
    ELSE IF pers = "control" /\ key = "counter_opponent" THEN 18
    ELSE IF pers = "control" /\ key = "cost_efficiency" THEN 15
    ELSE 10
DifficultyFactor(d) == IF d = "easy" THEN 7 ELSE IF d = "hard" THEN 13 ELSE 10
Weight(pers, d, key) == BaseWeight(pers, key) * DifficultyFactor(d)

\* the width of random.uniform(-j, j) in _play_cards, 2 * j in hundredths
JitterWidth(d) == IF d = "easy" THEN 300 ELSE IF d = "normal" THEN 160 ELSE 60

\* cards whose name holds "dragon" or "phoenix"
ThemedCards == {}

Abs(x) == IF x < 0 THEN -x ELSE x

\* _evaluate_field_positions: the positions empty on entry, in order, each with
\* its base score
EvaluateFieldPositions(pers, d, aiField, humanField, hp) ==
    LET score(position) ==
            LET opp == humanField[position]
            IN  (IF opp # NONE
                 THEN CardAttack[opp] * Weight(pers, d, "counter_opponent")
                      + (IF pers = "aggressive" THEN hp[opp] * 50 ELSE 0)
                      + (IF pers = "defensive" THEN CardAttack[opp] * 80 ELSE 0)
                 ELSE Weight(pers, d, "direct_damage") * 2
                      + (IF pers = "aggressive" THEN 200 ELSE 0))
                + (IF position = 1 THEN 50 ELSE 0)
    IN  [position \in {q \in Slots : aiField[q] = NONE} |-> score(position)]

\* _calculate_position_score
CalculatePositionScore(pers, d, card, position, humanField, hp) ==
    LET opp == humanField[position]
    IN  IF opp # NONE
        THEN (IF CardAttack[card] >= hp[opp]
              THEN CardAttack[opp] * 120
                   + (IF pers = "aggressive" THEN CardAttack[opp] * 50 ELSE 0)
              ELSE 0)
             + (IF hp[card] > CardAttack[opp]
                THEN CardAttack[card] * 80 + (IF pers = "defensive" THEN hp[card] * 50 ELSE 0)
                ELSE IF CardCost[card] < CardCost[opp]
                     THEN (CardCost[opp] - CardCost[card]) * Weight(pers, d, "cost_efficiency")
                     ELSE 0)
        ELSE CardAttack[card] * Weight(pers, d, "direct_damage")
             - (IF hp[card] > 3 /\ pers = "defensive" THEN hp[card] * 30 ELSE 0)

\* _calculate_card_priority: the score is PriorityNum / (100 * PriorityDen)
PriorityDen(card, hp) == Max(1, CardCost[card]) * Max(1, CardAttack[card] + hp[card])
PriorityNum(pers, d, card, hp, aiEnergy, aiField, aiHealth, humanHealth) ==
    LET a == CardAttack[card]
        h == hp[card]
        c == Max(1, CardCost[card])
        m == Max(1, a + h)
        den == c * m
        empty_slots == Cardinality({q \in Slots : aiField[q] = NONE})
    IN  a * Weight(pers, d, "attack") * den
        + h * Weight(pers, d, "health") * den
        + (a + h) * Weight(pers, d, "cost_efficiency") * m
        + (IF pers = "aggressive"
           THEN a * 50 * den + (IF humanHealth < 5 THEN a * 150 * den ELSE 0)
           ELSE IF pers = "defensive"
           THEN h * 50 * den + (IF aiHealth < 5 THEN h * 100 * den ELSE 0)
           ELSE IF pers = "control"
           THEN (m - Abs(a - h)) * 2 * Weight(pers, d, "board_control") * c
           ELSE 0)
        + (IF empty_slots <= 1 THEN a * 80 * den ELSE 0)
        + (IF 10 * aiEnergy > 7 * PLAYER_MAX_ENERGY THEN CardCost[card] * 30 * den
           ELSE IF 10 * aiEnergy < 4 * PLAYER_MAX_ENERGY
           THEN (PLAYER_MAX_ENERGY - CardCost[card]) * 40 * den
           ELSE 0)
        + (IF d = "hard" /\ card \in ThemedCards THEN 100 * den ELSE 0)

\* candidates only among the cards that leave energy over
BestCardIndicesStrict(pers, d, st, hp, aiHealth, humanHealth) ==
    LET cands == {i \in 1 .. Len(st.hand) : CardCost[st.hand[i]] < st.energy}
        num(i) == PriorityNum(pers, d, st.hand[i], hp, st.energy, st.field, aiHealth, humanHealth)
        den(i) == PriorityDen(st.hand[i], hp)
    IN  {i - 1 : i \in {j \in cands :
                          \A k \in cands \ {j} :
                              num(j) * den(k) + JitterWidth(d) * den(j) * den(k) > num(k) * den(j)}}

\* the hand indices (Python's) that can come first once the affordable cards are
\* sorted by score plus jitter: some draw of the jitters puts the card on top
BestCardIndices(pers, d, st, hp, aiHealth, humanHealth) ==
    LET cands == {i \in 1 .. Len(st.hand) : ~(CardCost[st.hand[i]] > st.energy)}
        num(i) == PriorityNum(pers, d, st.hand[i], hp, st.energy, st.field, aiHealth, humanHealth)
        den(i) == PriorityDen(st.hand[i], hp)
    IN  {i - 1 : i \in {j \in cands :
                          \A k \in cands \ {j} :
                              num(j) * den(k) + JitterWidth(d) * den(j) * den(k) > num(k) * den(j)}}

\* the position the loop over field_positions settles on: the first of the
\* still empty ones with the highest score, -1 standing for None
BestPosition(pers, d, card, positions, st, humanField, hp) ==
    LET open == {q \in DOMAIN positions : st.field[q] = NONE}
        total(q) == CalculatePositionScore(pers, d, card, q, humanField, hp) + positions[q]
    IN  IF open = {} THEN -1
        ELSE CHOOSE q \in open :
                 \A r \in open : total(q) > total(r) \/ (total(q) = total(r) /\ q <= r)

\* a loop that drops the best card from the hand when no slot is left for it
RECURSIVE PlayCardsLoopDiscarding(_, _, _, _, _, _, _)
PlayCardsLoopDiscarding(pers, d, positions, st, humanField, hp, healths) ==
    LET best == BestCardIndices(pers, d, st, hp, healths[1], healths[0])
    IN  IF best = {} THEN {st}
        ELSE UNION { LET card == st.hand[idx + 1]
                         pos == BestPosition(pers, d, card, positions, st, humanField, hp)
                         r == PlayerPlayCard(st.energy, st.hand, st.field, idx, pos)
                     IN  IF pos = -1
                         THEN PlayCardsLoopDiscarding(pers, d, positions,
                                  [st EXCEPT !.hand = RemoveAt(@, idx + 1)],
                                  humanField, hp, healths)
                         ELSE IF ~r.ok THEN {st}
                         ELSE PlayCardsLoopDiscarding(pers, d, positions,
                                  [energy |-> r.energy, hand |-> r.hand, field |-> r.field,
                                   events |-> Append(st.events,
                                       [type |-> "ai_card_played", card |-> card,
                                        field_position |-> pos,
                                        energy_remaining |-> r.energy])],
                                  humanField, hp, healths)
                   : idx \in best }

\* the while loop of _play_cards from the AI state st (energy, hand, field and
\* the events so far): every state it can end in
RECURSIVE PlayCardsLoop(_, _, _, _, _, _, _)
PlayCardsLoop(pers, d, positions, st, humanField, hp, healths) ==
    LET best == BestCardIndices(pers, d, st, hp, healths[1], healths[0])
    IN  IF best = {} THEN {st}
        ELSE UNION { LET card == st.hand[idx + 1]
                         pos == BestPosition(pers, d, card, positions, st, humanField, hp)
                         r == PlayerPlayCard(st.energy, st.hand, st.field, idx, pos)
                     IN  IF pos = -1 \/ ~r.ok THEN {st}
                         ELSE PlayCardsLoop(pers, d, positions,
                                  [energy |-> r.energy, hand |-> r.hand, field |-> r.field,
                                   events |-> Append(st.events,
                                       [type |-> "ai_card_played", card |-> card,
                                        field_position |-> pos,
                                        energy_remaining |-> r.energy])],
                                  humanField, hp, healths)
                   : idx \in best }

\* _play_cards
AIPlayCards(pers, d) ==
    PlayCardsLoop(pers, d,
                  EvaluateFieldPositions(pers, d, field[1], field[0], card_hp),
                  [energy |-> energy[1], hand |-> hand[1], field |-> field[1], events |-> <<>>],
                  field[0], card_hp, health)

\* ------------------------------------------------------------- save data
\* Deck.to_dict: the ids of the cards that are in the deck now, top first
DeckToDict(cards) == [cards |-> [i \in 1 .. Len(cards) |-> cards[i]]]

\* Player.to_dict for the human player: the snapshot SaveManager.save_player
\* writes
PlayerToDict ==
    [health |-> health[0], max_health |-> max_health[0],
     energy |-> energy[0], max_energy |-> max_energy[0],
     deck |-> DeckToDict(deck[0]), credits |-> credits[0]]

\* the deck snapshots the human player of this match can have been loaded
\* from: Init builds the player's deck from the ids of one of the matches set
\* up against this opponent
LoadedDeckData ==
    {DeckToDict(m.player) : m \in {n \in Matches : n.name = opponent_name}}

\* ---------------------------------------------------------------------- Init
Init ==
    /\ stage = "constructed"
    /\ current_player_index = 0
    /\ current_phase = "DRAW"
    /\ turn_number = 1
    /\ game_over = FALSE
    /\ winner = NONE
    /\ \E h \in SavedHealth : health = [p \in Players |-> IF p = 0 THEN h ELSE max_health[p]]
    /\ \E e \in SavedEnergy : energy = [p \in Players |-> IF p = 0 THEN e ELSE max_energy[p]]
    /\ hand = [p \in Players |-> <<>>]
    /\ field = [p \in Players |-> EmptyField]
    /\ \E m \in Matches :
          /\ deck = [p \in Players |-> IF p = 0 THEN m.player ELSE m.opponent]
          /\ difficulty = m.difficulty
          /\ opponent_name = m.name
          /\ personality \in PersonalitiesFor(m.difficulty)
    /\ credits = [p \in Players |-> IF p = 0 THEN InitialCredits ELSE 0]
    /\ collection = [p \in Players |-> NoCards]
    /\ card_hp = [c \in CardIds |-> CardHp[c]]
    /\ advances = 0
    /\ lastOp = "init"
    /\ ret = Ret(TRUE, "")
    /\ events = <<>>

\* ------------------------------------------------------------------- actions
\* start_game putting the cards of the hands back under the decks
StartGameResetReturningHands ==
    /\ current_player_index' = 0
    /\ current_phase' = "DRAW"
    /\ turn_number' = 1
    /\ game_over' = FALSE
    /\ winner' = NONE
    /\ energy' = [p \in Players |-> max_energy[p]]
    /\ health' = [p \in Players |-> max_health[p]]
    /\ hand' = [p \in Players |-> <<>>]
    /\ field' = [p \in Players |-> EmptyField]
    /\ \E d0 \in Shuffles(deck[0] \o hand[0]), d1 \in Shuffles(deck[1] \o hand[1]) :
          deck' = [p \in Players |-> IF p = 0 THEN d0 ELSE d1]
    /\ advances' = 0
    /\ lastOp' = "start_game"
    /\ ret' = Ret(TRUE, "")
    /\ events' = <<>>
    /\ UNCHANGED <<difficulty, opponent_name, personality, credits, collection, card_hp>>

\* GameController.start_game: what it does to the game state and the players
StartGameReset ==
    /\ current_player_index' = 0
    /\ current_phase' = "DRAW"
    /\ turn_number' = 1
    /\ game_over' = FALSE
    /\ winner' = NONE
    /\ energy' = [p \in Players |-> max_energy[p]]
    /\ health' = [p \in Players |-> max_health[p]]
    /\ hand' = [p \in Players |-> <<>>]
    /\ field' = [p \in Players |-> EmptyField]
    /\ \E d0 \in Shuffles(deck[0]), d1 \in Shuffles(deck[1]) :
          deck' = [p \in Players |-> IF p = 0 THEN d0 ELSE d1]
    /\ advances' = 0
    /\ lastOp' = "start_game"
    /\ ret' = Ret(TRUE, "")
    /\ events' = <<>>
    /\ UNCHANGED <<difficulty, opponent_name, personality, credits, collection, card_hp>>

\* GameController.start_game, called by the driver on the constructed game
StartGame ==
    /\ stage = "constructed"
    /\ stage' = "started"
    /\ StartGameReset

\* Player.draw_starting_hand(PLAYER_STARTING_HAND_SIZE), for the player and
\* then for the opponent
DrawStartingHand(p) ==
    /\ \/ stage = "started" /\ p = 0 /\ stage' = "dealt"
       \/ stage = "dealt" /\ p = 1 /\ stage' = "match"
    /\ LET d == DeckDrawHand(deck[p], PLAYER_STARTING_HAND_SIZE)
       IN  /\ hand' = [hand EXCEPT ![p] = @ \o d.drawn]
           /\ deck' = [deck EXCEPT ![p] = d.cards]
    /\ lastOp' = "draw_starting_hand"
    /\ UNCHANGED advances
    /\ ret' = Ret(TRUE, "")
    /\ events' = <<>>
    /\ UNCHANGED <<difficulty, opponent_name, personality, gameVars, health, energy, field, credits, collection, card_hp>>

RewardsPaid == (credits[0] - InitialCredits) \div VictoryReward(opponent_name)

\* process_turn that moves on to the attack phase when called in the play phase
ProcessTurnAdvancing ==
    /\ stage = "match"
    /\ RewardsPaid < MaxRewards
    /\ lastOp' = "process_turn"
    /\ UNCHANGED advances
    /\ ret' = Ret(TRUE, current_phase)
    /\ \/ /\ current_phase = "DRAW"
          /\ LET p == current_player_index
                 d == PlayerDrawCard(hand[p], deck[p])
             IN  /\ hand' = [hand EXCEPT ![p] = d.hand]
                 /\ deck' = [deck EXCEPT ![p] = d.deck]
                 /\ events' = IF d.card # NONE
                              THEN <<[type |-> "draw", player |-> p, card |-> d.card]>>
                              ELSE <<[type |-> "deck_empty", player |-> p]>>
          /\ UNCHANGED <<setupVars, gameVars, health, energy, field, credits, collection, card_hp>>
       \/ /\ current_phase = "PLAY"
          /\ current_phase' = NextPhaseOf(current_phase)
          /\ events' = <<>>
          /\ UNCHANGED <<setupVars, current_player_index, turn_number, game_over, winner,
                         playerVars, card_hp>>
       \/ /\ current_phase = "END"
          /\ events' = <<>>
          /\ UNCHANGED <<setupVars, gameVars, playerVars, card_hp>>
       \/ /\ current_phase = "ATTACK"
          /\ LET r == HandleAttackPhase(current_player_index)
             IN  /\ health' = r.health
                 /\ field' = r.field
                 /\ card_hp' = r.card_hp
                 /\ game_over' = r.game_over
                 /\ winner' = r.winner
                 /\ credits' = r.credits
                 /\ events' = r.events
          /\ UNCHANGED <<setupVars, current_player_index, current_phase, turn_number,
                         energy, hand, deck, collection>>

\* GameController.process_turn
ProcessTurn ==
    /\ stage = "match"
    /\ RewardsPaid < MaxRewards
    /\ lastOp' = "process_turn"
    /\ UNCHANGED advances
    /\ ret' = Ret(TRUE, current_phase)
    /\ \/ /\ current_phase = "DRAW"
          /\ LET p == current_player_index
                 d == PlayerDrawCard(hand[p], deck[p])
             IN  /\ hand' = [hand EXCEPT ![p] = d.hand]
                 /\ deck' = [deck EXCEPT ![p] = d.deck]
                 /\ events' = IF d.card # NONE
                              THEN <<[type |-> "draw", player |-> p, card |-> d.card]>>
                              ELSE <<[type |-> "deck_empty", player |-> p]>>
          /\ UNCHANGED <<setupVars, gameVars, health, energy, field, credits, collection, card_hp>>
       \/ /\ current_phase \in {"PLAY", "END"}
          /\ events' = <<>>
          /\ UNCHANGED <<setupVars, gameVars, playerVars, card_hp>>
       \/ /\ current_phase = "ATTACK"
          /\ LET r == HandleAttackPhase(current_player_index)
             IN  /\ health' = r.health
                 /\ field' = r.field
                 /\ card_hp' = r.card_hp
                 /\ game_over' = r.game_over
                 /\ winner' = r.winner
                 /\ credits' = r.credits
                 /\ events' = r.events
          /\ UNCHANGED <<setupVars, current_player_index, current_phase, turn_number,
                         energy, hand, deck, collection>>

\* GameController.advance_phase: GameState.next_phase and next_turn
AdvancePhase ==
    /\ stage = "match"
    /\ advances < MaxAdvances
    /\ advances' = advances + 1
    /\ current_phase' = NextPhaseOf(current_phase)
    /\ IF current_phase' = "DRAW"
       THEN /\ current_player_index' = NextTurnIndex(current_player_index)
            /\ turn_number' = NextTurnNumber(turn_number, current_player_index')
            /\ energy' = NextTurnEnergy(energy, current_player_index')
       ELSE UNCHANGED <<current_player_index, turn_number, energy>>
    /\ lastOp' = "advance_phase"
    /\ ret' = Ret(TRUE, current_phase')
    /\ events' = <<>>
    /\ UNCHANGED <<setupVars, game_over, winner, health, hand, field, deck, credits, collection, card_hp>>

\* the gate looking at the turn before the phase
PlayCardGateTurnFirst(phase, active, p) ==
    IF active # p THEN "It's not your turn"
    ELSE IF phase # "PLAY" THEN "You can only play cards during the play phase"
    ELSE ""

\* PlayerController.play_card: the checks made before Player.play_card is
\* called; the message of the failed check, "" when both pass
PlayCardGate(phase, active, p) ==
    IF phase # "PLAY" THEN "You can only play cards during the play phase"
    ELSE IF active # p THEN "It's not your turn"
    ELSE ""

\* PlayerController.play_card(player, hand_index, field_index) called in the
\* current state: what it returns and what it leaves as the player's energy,
\* hand and field
PlayCardOutcome(p, hand_index, field_index) ==
    LET g == PlayCardGate(current_phase, current_player_index, p)
        r == PlayerPlayCard(energy[p], hand[p], field[p], hand_index, field_index)
    IN  IF g # ""
        THEN [ok |-> FALSE, msg |-> g, energy |-> energy[p], hand |-> hand[p],
              field |-> field[p], events |-> <<>>]
        ELSE [ok |-> r.ok, msg |-> r.msg, energy |-> r.energy, hand |-> r.hand,
              field |-> r.field,
              events |-> IF r.ok
                         THEN <<[type |-> "card_played", player |-> p,
                                 card |-> hand[p][hand_index + 1],
                                 field_position |-> field_index,
                                 energy_remaining |-> r.energy]>>
                         ELSE <<>>]

\* PlayerController.play_card(player, hand_index, field_index)
PlayCard(p, hand_index, field_index) ==
    /\ stage = "match"
    /\ lastOp' = "play_card"
    /\ UNCHANGED advances
    /\ LET o == PlayCardOutcome(p, hand_index, field_index)
       IN  /\ ret' = Ret(o.ok, o.msg)
           /\ energy' = [energy EXCEPT ![p] = o.energy]
           /\ hand' = [hand EXCEPT ![p] = o.hand]
           /\ field' = [field EXCEPT ![p] = o.field]
           /\ events' = o.events
    /\ UNCHANGED <<setupVars, gameVars, health, deck, credits, collection, card_hp>>

\* can_play_card that does not look at the target slot
CanPlayCardResultAnySlot(p, hand_index, field_index) ==
    IF current_phase # "PLAY" THEN Ret(FALSE, "You can only play cards during the play phase")
    ELSE IF current_player_index # p THEN Ret(FALSE, "It's not your turn")
    ELSE IF ~(0 <= hand_index /\ hand_index < Len(hand[p])) THEN Ret(FALSE, "Invalid hand index")
    ELSE IF ~(0 <= field_index /\ field_index < PLAYER_FIELD_SIZE)
    THEN Ret(FALSE, "Invalid field index")
    ELSE IF energy[p] < CardCost[hand[p][hand_index + 1]] THEN Ret(FALSE, "Not enough energy")
    ELSE Ret(TRUE, "Card can be played")

\* PlayerController.can_play_card(player, hand_index, field_index) called in
\* the current state: what it returns
CanPlayCardResult(p, hand_index, field_index) ==
    IF current_phase # "PLAY" THEN Ret(FALSE, "You can only play cards during the play phase")
    ELSE IF current_player_index # p THEN Ret(FALSE, "It's not your turn")
    ELSE IF ~(0 <= hand_index /\ hand_index < Len(hand[p])) THEN Ret(FALSE, "Invalid hand index")
    ELSE IF ~(0 <= field_index /\ field_index < PLAYER_FIELD_SIZE)
    THEN Ret(FALSE, "Invalid field index")
    ELSE IF field[p][field_index] # NONE THEN Ret(FALSE, "Field position already occupied")
    ELSE IF energy[p] < CardCost[hand[p][hand_index + 1]] THEN Ret(FALSE, "Not enough energy")
    ELSE Ret(TRUE, "Card can be played")

\* PlayerController.can_play_card(player, hand_index, field_index)
CanPlayCard(p, hand_index, field_index) ==
    /\ stage = "match"
    /\ lastOp' = "can_play_card"
    /\ ret' = CanPlayCardResult(p, hand_index, field_index)
    /\ events' = <<>>
    /\ UNCHANGED <<setupVars, gameVars, playerVars, card_hp, advances>>

\* PlayerController.end_play_phase(player) called in the current state: what
\* it returns
EndPlayPhaseResult(p) ==
    IF current_phase = "PLAY" /\ current_player_index = p
    THEN [ok |-> TRUE, msg |-> "Play phase ended",
          events |-> <<[type |-> "phase_ended", player |-> p, phase |-> "PLAY"]>>]
    ELSE [ok |-> FALSE, msg |-> "Cannot end play phase now", events |-> <<>>]

\* PlayerController.end_play_phase(player)
EndPlayPhase(p) ==
    /\ stage = "match"
    /\ lastOp' = "end_play_phase"
    /\ ret' = Ret(EndPlayPhaseResult(p).ok, EndPlayPhaseResult(p).msg)
    /\ events' = EndPlayPhaseResult(p).events
    /\ UNCHANGED <<setupVars, gameVars, playerVars, card_hp, advances>>

\* get_playable_cards calling a card playable only when energy is left over
GetPlayableCardsStrict(p) ==
    IF current_phase = "PLAY" /\ current_player_index = p
    THEN [i \in 1 .. Len(hand[p]) |->
             LET playable == CardCost[hand[p][i]] < energy[p]
             IN  [index |-> i - 1, card |-> hand[p][i], cost |-> CardCost[hand[p][i]],
                  playable |-> playable,
                  reason |-> IF playable THEN "" ELSE "Not enough energy"]]
    ELSE <<>>

\* PlayerController.get_playable_cards(player) called in the current state:
\* the list it returns
GetPlayableCardsResult(p) ==
    IF current_phase = "PLAY" /\ current_player_index = p
    THEN [i \in 1 .. Len(hand[p]) |->
             LET playable == CardCost[hand[p][i]] <= energy[p]
             IN  [index |-> i - 1, card |-> hand[p][i], cost |-> CardCost[hand[p][i]],
                  playable |-> playable,
                  reason |-> IF playable THEN "" ELSE "Not enough energy"]]
    ELSE <<>>

\* PlayerController.get_playable_cards(player); the list returned is kept in
\* events
GetPlayableCards(p) ==
    /\ stage = "match"
    /\ lastOp' = "get_playable_cards"
    /\ ret' = Ret(TRUE, "")
    /\ events' = GetPlayableCardsResult(p)
    /\ UNCHANGED <<setupVars, gameVars, playerVars, card_hp, advances>>

\* PlayerController.get_card_placement_options(player) called in the current
\* state: the list it returns
GetCardPlacementOptionsResult(p) ==
    IF current_phase = "PLAY" /\ current_player_index = p
    THEN [i \in 1 .. PLAYER_FIELD_SIZE |->
             [index |-> i - 1, available |-> field[p][i - 1] = NONE,
              current_card |-> field[p][i - 1]]]
    ELSE <<>>

\* PlayerController.get_card_placement_options(player); the list returned is
\* kept in events
GetCardPlacementOptions(p) ==
    /\ stage = "match"
    /\ lastOp' = "get_card_placement_options"
    /\ ret' = Ret(TRUE, "")
    /\ events' = GetCardPlacementOptionsResult(p)
    /\ UNCHANGED <<setupVars, gameVars, playerVars, card_hp, advances>>

\* GameState.check_game_over, called directly
CheckGameOver ==
    /\ stage = "match"
    /\ LET chk == CheckGameOverOn(health, game_over, winner)
       IN  /\ game_over' = chk.game_over
           /\ winner' = chk.winner
           /\ ret' = Ret(chk.ret, "")
    /\ lastOp' = "check_game_over"
    /\ UNCHANGED advances
    /\ events' = <<>>
    /\ UNCHANGED <<setupVars, current_player_index, current_phase, turn_number,
                   playerVars, card_hp>>

\* take_turn that plays in any PLAY phase, the human player's too
AITakeTurnAnyTurn ==
    /\ stage = "match"
    /\ lastOp' = "take_turn"
    /\ UNCHANGED advances
    /\ ret' = Ret(TRUE, "")
    /\ IF current_phase # "PLAY"
       THEN /\ events' = <<>>
            /\ UNCHANGED <<energy, hand, field>>
       ELSE \E st \in AIPlayCards(personality, difficulty) :
                /\ energy' = [energy EXCEPT ![1] = st.energy]
                /\ hand' = [hand EXCEPT ![1] = st.hand]
                /\ field' = [field EXCEPT ![1] = st.field]
                /\ events' = st.events
    /\ UNCHANGED <<setupVars, gameVars, health, deck, credits, collection, card_hp>>

\* AIController.take_turn
AITakeTurn ==
    /\ stage = "match"
    /\ lastOp' = "take_turn"
    /\ UNCHANGED advances
    /\ ret' = Ret(TRUE, "")
    /\ IF current_player_index # 1 \/ current_phase # "PLAY"
       THEN /\ events' = <<>>
            /\ UNCHANGED <<energy, hand, field>>
       ELSE \E st \in AIPlayCards(personality, difficulty) :
                /\ energy' = [energy EXCEPT ![1] = st.energy]
                /\ hand' = [hand EXCEPT ![1] = st.hand]
                /\ field' = [field EXCEPT ![1] = st.field]
                /\ events' = st.events
    /\ UNCHANGED <<setupVars, gameVars, health, deck, credits, collection, card_hp>>

HandIndices == -1 .. 2
FieldIndices == -1 .. PLAYER_FIELD_SIZE
\* the index pairs play_card is called with: a call the controller rejects for
\* the phase or the turn returns before it looks at its indices, so one pair
\* stands for all of them
PlayCardInputs(p) ==
    IF PlayCardGate(current_phase, current_player_index, p) = ""
    THEN HandIndices \X FieldIndices
    ELSE {<<0, 0>>}

Next ==
    \/ StartGame
    \/ \E p \in Players : DrawStartingHand(p)
    \/ ProcessTurn
    \/ AdvancePhase
    \/ \E p \in Players : \E a \in PlayCardInputs(p) : PlayCard(p, a[1], a[2])
    \/ CheckGameOver
    \/ AITakeTurn

Spec == Init /\ [][Next]_vars

\* ------------------------------------------------- the drivers' match loop
\* main.game_loop_with_controllers and GameScreen.update call process_turn only
\* while game_over is false; the other operations stay as free as in Next
ProcessTurnWhileRunning ==
    /\ ~game_over
    /\ ProcessTurn

DriverNext ==
    \/ StartGame
    \/ \E p \in Players : DrawStartingHand(p)
    \/ ProcessTurnWhileRunning
    \/ AdvancePhase
    \/ \E p \in Players : \E a \in PlayCardInputs(p) : PlayCard(p, a[1], a[2])
    \/ CheckGameOver
    \/ AITakeTurn

DriverSpec == Init /\ [][DriverNext]_vars

\* ----------------------------------------------------------- the collection
\* Player.add_to_collection is called by the shop on the loaded human player:
\* the collections it is loaded with and the quantities of a call
LoadedCollections ==
    {[id \in CollectionIds |-> IF id = "scout" THEN a ELSE IF id = "ghost" THEN b ELSE 0] :
        a \in 0 .. max_copies, b \in {0, max_copies}}
Quantities == 0 .. (max_copies + 1)

CollectionInit ==
    /\ stage = "constructed"
    /\ current_player_index = 0
    /\ current_phase = "DRAW"
    /\ turn_number = 1
    /\ game_over = FALSE
    /\ winner = NONE
    /\ health = [p \in Players |-> max_health[p]]
    /\ energy = [p \in Players |-> max_energy[p]]
    /\ hand = [p \in Players |-> <<>>]
    /\ field = [p \in Players |-> EmptyField]
    /\ deck = [p \in Players |-> <<"scout">>]
    /\ difficulty = "normal"
    /\ opponent_name = <<"Normal", "AI", "Opponent">>
    /\ personality = "balanced"
    /\ credits = [p \in Players |-> IF p = 0 THEN InitialCredits ELSE 0]
    /\ \E c \in LoadedCollections : collection = [p \in Players |-> IF p = 0 THEN c ELSE NoCards]
    /\ card_hp = [c \in CardIds |-> CardHp[c]]
    /\ advances = 0
    /\ lastOp = "init"
    /\ ret = Ret(TRUE, "")
    /\ events = <<>>

\* Player.add_to_collection(card_id, quantity) on the human player
AddToCollection(card_id, quantity) ==
    /\ credits[0] < InitialCredits + MaxConverted
    /\ LET r == AddToCollectionResult(collection[0][card_id], card_id, quantity)
       IN  /\ collection' = [collection EXCEPT ![0][card_id] = r.owned]
           /\ credits' = [credits EXCEPT ![0] = @ + r.credits_earned]
           /\ ret' = [to_add |-> r.to_add, credits_earned |-> r.credits_earned]
    /\ lastOp' = "add_to_collection"
    /\ events' = <<>>
    /\ UNCHANGED <<setupVars, gameVars, health, energy, hand, field, deck, card_hp, advances>>

CollectionNext ==
    \E card_id \in CollectionIds, quantity \in Quantities : AddToCollection(card_id, quantity)

CollectionSpec == CollectionInit /\ [][CollectionNext]_vars

\* --------------------------------------------------- creating the controller
\* AIController.create_for_difficulty is called on the constructed game with a
\* difficulty string.
DifficultyLevels == {"easy", "normal", "hard", "Easy", "NORMAL", "HARD", "Expert", "medium", ""}

\* AIController.create_for_difficulty(game_state, difficulty_level)
CreateForDifficulty(level) ==
    /\ stage = "constructed"
    /\ \E r \in CreateForDifficultyResult(level) :
          /\ difficulty' = r.difficulty
          /\ personality' = r.personality
    /\ lastOp' = "create_for_difficulty"
    /\ ret' = Ret(TRUE, "")
    /\ events' = <<>>
    /\ UNCHANGED <<stage, opponent_name, gameVars, playerVars, card_hp, advances>>

CreateNext == \E level \in DifficultyLevels : CreateForDifficulty(level)

CreateSpec == Init /\ [][CreateNext]_vars

\* ------------------------------------------------- the opponent's turn alone
\* AIController.take_turn is called by the driver at any point of a match: the
\* hands, fields, energies, healths and card hps it can find there
FieldOf(cards) == [s \in Slots |-> cards[s + 1]]
TurnHands == {<<>>, <<"giant">>, <<"scout", "imp">>, <<"imp", "imp", "imp">>,
              <<"knight", "imp", "scout">>}
TurnFields == {EmptyField, FieldOf(<<NONE, "knight", NONE>>),
               FieldOf(<<"scout", NONE, "imp">>), FieldOf(<<"imp", "giant", "scout">>)}
TurnEnergy == 0 .. PLAYER_MAX_ENERGY
TurnHealth == {4, PLAYER_STARTING_HEALTH}
TurnCardHp == {CardHp, [CardHp EXCEPT !["knight"] = 2, !["scout"] = 1]}
\* the active player and the phase: the opponent's PLAY phase, the human
\* player's PLAY phase, and another phase of the opponent's turn
TurnPoints == {<<1, "PLAY">>, <<0, "PLAY">>, <<1, "ATTACK">>}

AIInit ==
    /\ stage = "match"
    /\ \E pt \in TurnPoints : current_player_index = pt[1] /\ current_phase = pt[2]
    /\ turn_number = 1
    /\ game_over = FALSE
    /\ winner = NONE
    /\ \E h \in TurnHealth : health = [p \in Players |-> h]
    /\ \E e \in TurnEnergy : energy = [p \in Players |-> IF p = 1 THEN e ELSE max_energy[p]]
    /\ \E h \in TurnHands : hand = [p \in Players |-> IF p = 1 THEN h ELSE <<"scout">>]
    /\ field \in [Players -> TurnFields]
    /\ deck = [p \in Players |-> <<"imp">>]
    /\ \E m \in Matches :
          /\ difficulty = m.difficulty
          /\ opponent_name = m.name
          /\ personality \in PersonalitiesFor(m.difficulty)
    /\ credits = [p \in Players |-> IF p = 0 THEN InitialCredits ELSE 0]
    /\ collection = [p \in Players |-> NoCards]
    /\ card_hp \in TurnCardHp
    /\ advances = 0
    /\ lastOp = "init"
    /\ ret = Ret(TRUE, "")
    /\ events = <<>>

AINext == AITakeTurn

AISpec == AIInit /\ [][AINext]_vars

\* ------------------------------------------------ the player controller alone
\* The operations of PlayerController are called for either player at any point
\* of a turn, with the hands, fields and energies the active player can have.
ControllerInit ==
    /\ stage = "match"
    /\ current_player_index \in Players
    /\ current_phase \in {Phases[i] : i \in 1 .. Len(Phases)}
    /\ turn_number = 1
    /\ game_over = FALSE
    /\ winner = NONE
    /\ health = max_health
    /\ \E e \in TurnEnergy : energy = [p \in Players |-> e]
    /\ \E h \in TurnHands :
          hand = [p \in Players |-> IF p = current_player_index THEN h ELSE <<"scout">>]
    /\ \E f \in TurnFields :
          field = [p \in Players |-> IF p = current_player_index THEN f ELSE EmptyField]
    /\ deck = [p \in Players |-> <<>>]
    /\ difficulty = "normal"
    /\ opponent_name = <<"Normal", "AI", "Opponent">>
    /\ personality = "balanced"
    /\ credits = [p \in Players |-> IF p = 0 THEN InitialCredits ELSE 0]
    /\ collection = [p \in Players |-> NoCards]
    /\ card_hp = [c \in CardIds |-> CardHp[c]]
    /\ advances = 0
    /\ lastOp = "init"
    /\ ret = Ret(TRUE, "")
    /\ events = <<>>

ControllerNext ==
    \/ \E p \in Players : \E a \in PlayCardInputs(p) : CanPlayCard(p, a[1], a[2])
    \/ \E p \in Players : \E a \in PlayCardInputs(p) : PlayCard(p, a[1], a[2])
    \/ \E p \in Players : EndPlayPhase(p)
    \/ \E p \in Players : GetPlayableCards(p)
    \/ \E p \in Players : GetCardPlacementOptions(p)

ControllerSpec == ControllerInit /\ [][ControllerNext]_vars

\* ----------------------------------------------------- an attack phase alone
\* GameController.process_turn is called in the ATTACK phase of either player
\* with the fields, healths and card hps a match can have reached by then.
AttackInit ==
    /\ stage = "match"
    /\ current_player_index \in Players
    /\ current_phase = "ATTACK"
    /\ turn_number = 1
    /\ game_over = FALSE
    /\ winner = NONE
    /\ health \in [Players -> TurnHealth]
    /\ energy = max_energy
    /\ hand = [p \in Players |-> <<>>]
    /\ field \in [Players -> TurnFields]
    /\ deck = [p \in Players |-> <<>>]
    /\ \E m \in Matches :
          /\ difficulty = m.difficulty
          /\ opponent_name = m.name
          /\ personality = CHOOSE pers \in PersonalitiesFor(m.difficulty) : TRUE
    /\ credits = [p \in Players |-> IF p = 0 THEN InitialCredits ELSE 0]
    /\ collection = [p \in Players |-> NoCards]
    /\ card_hp \in TurnCardHp
    /\ advances = 0
    /\ lastOp = "init"
    /\ ret = Ret(TRUE, "")
    /\ events = <<>>

AttackNext == ProcessTurn

AttackSpec == AttackInit /\ [][AttackNext]_vars

\* ------------------------------------------------ start_game on a used game
\* GameController.start_game is a public method of a controller that lives as
\* long as its game state: the states of a match it can be called in
RestartOutcomes == {<<FALSE, NONE>>, <<TRUE, "player">>, <<TRUE, "opponent">>}
RestartDecks == {<<>>, <<"imp", "scout">>, <<"scout", "imp", "imp">>}
RestartInit ==
    /\ stage = "match"
    /\ current_player_index \in Players
    /\ current_phase \in {"DRAW", "ATTACK"}
    /\ turn_number \in {1, 5}
    /\ \E o \in RestartOutcomes : game_over = o[1] /\ winner = o[2]
    /\ \E h0 \in {0, 4}, h1 \in {0, PLAYER_STARTING_HEALTH} :
          health = [p \in Players |-> IF p = 0 THEN h0 ELSE h1]
    /\ \E e \in {0, 3} : energy = [p \in Players |-> e]
    /\ \E hd \in TurnHands : hand = [p \in Players |-> IF p = 0 THEN hd ELSE <<"scout">>]
    /\ \E fd \in TurnFields :
          field = [p \in Players |-> IF p = 0 THEN fd ELSE FieldOf(<<NONE, "knight", NONE>>)]
    /\ \E d \in RestartDecks : deck = [p \in Players |-> IF p = 0 THEN d ELSE <<"knight", "imp">>]
    /\ difficulty = "normal"
    /\ opponent_name = <<"Normal", "AI", "Opponent">>
    /\ personality = "balanced"
    /\ credits = [p \in Players |-> IF p = 0 THEN InitialCredits ELSE 0]
    /\ collection = [p \in Players |-> NoCards]
    /\ card_hp \in TurnCardHp
    /\ advances = 0
    /\ lastOp = "init"
    /\ ret = Ret(TRUE, "")
    /\ events = <<>>

\* GameController.start_game, called again on the same game
StartGameAgain ==
    /\ stage = "match"
    /\ stage' = "started"
    /\ StartGameReset

RestartNext == StartGameAgain

RestartSpec == RestartInit /\ [][RestartNext]_vars

\* ------------------------------------------------------------ a deck alone
\* The operations of Deck on the human player's deck, outside a match: the
\* decks a Deck can be constructed with, the cards added and the counts drawn.
DeckCards == {"scout", "imp"}
AddCards == {"scout", "giant"}
SeqsUpTo(S, n) == UNION {[1 .. k -> S] : k \in 0 .. n}
LongDeck(k) == [i \in 1 .. k |-> IF i % 2 = 0 THEN "scout" ELSE "imp"]
TestDecks ==
    SeqsUpTo(DeckCards, MaxDeckLen)
        \cup {LongDeck(k) : k \in {MAX_DECK_SIZE - 1, MAX_DECK_SIZE, MAX_DECK_SIZE + 1}}
DrawCounts == -1 .. (MaxDeckLen + 1)

DeckInit ==
    /\ stage = "constructed"
    /\ current_player_index = 0
    /\ current_phase = "DRAW"
    /\ turn_number = 1
    /\ game_over = FALSE
    /\ winner = NONE
    /\ health = max_health
    /\ energy = max_energy
    /\ hand = [p \in Players |-> <<>>]
    /\ field = [p \in Players |-> EmptyField]
    /\ \E d \in TestDecks : deck = [p \in Players |-> IF p = 0 THEN d ELSE <<>>]
    /\ difficulty = "normal"
    /\ opponent_name = <<"Opponent">>
    /\ personality = "balanced"
    /\ credits = [p \in Players |-> IF p = 0 THEN InitialCredits ELSE 0]
    /\ collection = [p \in Players |-> NoCards]
    /\ card_hp = [c \in CardIds |-> CardHp[c]]
    /\ advances = 0
    /\ lastOp = "init"
    /\ ret = Ret(TRUE, "")
    /\ events = <<>>

\* Deck.add_card(card); decks between the short ones and the size limit are
\* left out
DeckAddCardOp(card) ==
    /\ Len(deck[0]) <= MaxDeckLen \/ Len(deck[0]) >= MAX_DECK_SIZE - 1
    /\ LET r == DeckAddCard(deck[0], card)
       IN  /\ deck' = [deck EXCEPT ![0] = r.cards]
           /\ ret' = Ret(r.ok, "")
    /\ lastOp' = "add_card"
    /\ events' = <<>>
    /\ UNCHANGED <<setupVars, gameVars, health, energy, hand, field, credits, collection, card_hp, advances>>

\* Deck.draw(); the card returned is kept in ret.msg
DeckDrawOp ==
    /\ LET d == DeckDraw(deck[0])
       IN  /\ deck' = [deck EXCEPT ![0] = d.cards]
           /\ ret' = Ret(d.card # NONE, d.card)
    /\ lastOp' = "draw"
    /\ events' = <<>>
    /\ UNCHANGED <<setupVars, gameVars, health, energy, hand, field, credits, collection, card_hp, advances>>

\* Deck.draw_hand(count); the list returned is kept as the player's hand
DeckDrawHandOp(count) ==
    /\ LET d == DeckDrawHand(deck[0], count)
       IN  /\ deck' = [deck EXCEPT ![0] = d.cards]
           /\ hand' = [hand EXCEPT ![0] = d.drawn]
    /\ ret' = Ret(TRUE, "")
    /\ lastOp' = "draw_hand"
    /\ events' = <<>>
    /\ UNCHANGED <<setupVars, gameVars, health, energy, field, credits, collection, card_hp, advances>>

\* Deck.validate()
DeckValidateOp ==
    /\ ret' = DeckValidate(deck[0])
    /\ lastOp' = "validate"
    /\ events' = <<>>
    /\ UNCHANGED <<setupVars, gameVars, playerVars, card_hp, advances>>

DeckNext ==
    \/ \E card \in AddCards : DeckAddCardOp(card)
    \/ DeckDrawOp
    \/ \E count \in DrawCounts : DeckDrawHandOp(count)
    \/ DeckValidateOp

DeckSpec == DeckInit /\ [][DeckNext]_vars

\* ==================================================================== claims
\* a step of process_turn in the attack phase
AttackStep == lastOp' = "process_turn" /\ current_phase = "ATTACK"
\* the combat state before and after lane s of the attack phase run from the
\* current state, and the events that lane adds
LaneBefore(s) == ResolveLanes(World, current_player_index, s)
LaneAfter(s) == ResolveLanes(World, current_player_index, s + 1)
LaneEvents(s) ==
    SubSeq(LaneAfter(s).events, Len(LaneBefore(s).events) + 1, Len(LaneAfter(s).events))
EventsOfType(evs, t) == SelectSeq(evs, LAMBDA e : e.type = t)
\* the attack phase returns the lanes' events in order and leaves the fields,
\* healths and card hps of the last lane
AttackStepResult ==
    LET w == LaneBefore(PLAYER_FIELD_SIZE)
    IN  /\ health' = w.health
        /\ field' = w.field
        /\ card_hp' = w.card_hp
        /\ SubSeq(events', 1, Len(w.events)) = w.events

\* C1: after n calls of advance_phase from the start of the match the phase is
\* the (n mod 4)-th of DRAW, PLAY, ATTACK, END, the active index is
\* floor(n/4) mod 2 and turn_number is 1 + floor(n/8).
C1_TurnCycle ==
    stage = "match" =>
        /\ current_phase = Phases[(advances % 4) + 1]
        /\ current_player_index = (advances \div 4) % 2
        /\ turn_number = 1 + (advances \div 8)
C1_Witness ==
    /\ stage = "match" /\ lastOp = "advance_phase" /\ advances = 8
    /\ current_phase = "DRAW" /\ current_player_index = 0 /\ turn_number = 2

\* C2: advance_phase changes the active player, turn_number and energy only on
\* the END -> DRAW edge, where the index flips, turn_number grows by one exactly
\* when the new index is 0 and only the newly active player's energy is set to
\* max_energy; on the other edges only current_phase changes; no call changes
\* health, hand, field or deck.
C2_AdvanceFrame ==
    [][lastOp' = "advance_phase" =>
        /\ health' = health /\ hand' = hand /\ field' = field /\ deck' = deck
        /\ current_phase' = Phases[(PhaseIndex(current_phase) % 4) + 1]
        /\ IF current_phase = "END"
           THEN /\ current_player_index' = 1 - current_player_index
                /\ turn_number' = turn_number + (IF current_player_index' = 0 THEN 1 ELSE 0)
                /\ energy'[current_player_index'] = max_energy[current_player_index']
                /\ energy'[current_player_index] = energy[current_player_index]
           ELSE /\ current_player_index' = current_player_index
                /\ turn_number' = turn_number
                /\ energy' = energy
                /\ UNCHANGED <<game_over, winner, credits, card_hp>>]_vars
C2_Witness ==
    /\ lastOp = "advance_phase" /\ current_phase = "DRAW" /\ current_player_index = 1
    /\ turn_number = 1
    /\ energy[1] = max_energy[1] /\ energy[0] < max_energy[0]

\* C3: in the attack phase, a lane where the attacker has a card and the
\* defender's slot is empty takes exactly the card's attack from the defender's
\* health (floored at 0), adds exactly one player_damage event of that damage,
\* and leaves the attacking card's hp and slot as they were.
C3_DirectAttack ==
    [][AttackStep =>
        /\ AttackStepResult
        /\ \A s \in Slots :
              LET att == current_player_index
                  card == field[att][s]
                  pre == LaneBefore(s)
                  post == LaneAfter(s)
              IN  (card # NONE /\ field[1 - att][s] = NONE) =>
                      /\ post.health[1 - att] = Max(0, pre.health[1 - att] - CardAttack[card])
                      /\ LaneEvents(s) = <<[type |-> "player_damage", player |-> 1 - att,
                                            damage |-> CardAttack[card], source |-> card,
                                            excess |-> FALSE]>>
                      /\ post.card_hp[card] = pre.card_hp[card]
                      /\ post.field[att][s] = card
                      /\ field'[att][s] = card]_vars
C3_Witness ==
    /\ lastOp = "process_turn" /\ current_phase = "ATTACK" /\ current_player_index = 0
    /\ field[0] = [s \in Slots |-> IF s = 1 THEN "scout" ELSE NONE]
    /\ field[1] = EmptyField
    /\ energy[0] = 1
    /\ card_hp["scout"] = 3
    /\ health[1] = 6
    /\ events = <<[type |-> "player_damage", player |-> 1, damage |-> 4, source |-> "scout",
                   excess |-> FALSE]>>

\* C4: in an occupied lane, an attack >= the defender card's hp destroys that
\* card (card_destroyed, slot cleared) and costs the defender player exactly
\* max(0, attack - hp_before) health (floored at 0), with a player_damage event
\* of that amount only when it is > 0; an attack < the hp leaves the defender
\* player's health unchanged in that lane.
C4_Overkill ==
    [][AttackStep =>
        /\ AttackStepResult
        /\ \A s \in Slots :
              LET att == current_player_index
                  card == field[att][s]
                  dc == field[1 - att][s]
                  pre == LaneBefore(s)
                  post == LaneAfter(s)
                  over == Max(0, CardAttack[card] - pre.card_hp[dc])
              IN  (card # NONE /\ dc # NONE) =>
                      IF CardAttack[card] >= pre.card_hp[dc]
                      THEN /\ post.field[1 - att][s] = NONE
                           /\ field'[1 - att][s] = NONE
                           /\ EventsOfType(LaneEvents(s), "card_destroyed")
                                = <<[type |-> "card_destroyed", card |-> dc, slot |-> s]>>
                           /\ post.health[1 - att] = Max(0, pre.health[1 - att] - over)
                           /\ EventsOfType(LaneEvents(s), "player_damage")
                                = IF over > 0
                                  THEN <<[type |-> "player_damage", player |-> 1 - att,
                                          damage |-> over, source |-> card, excess |-> TRUE]>>
                                  ELSE <<>>
                      ELSE post.health[1 - att] = pre.health[1 - att]]_vars
C4_Witness ==
    /\ lastOp = "process_turn" /\ current_phase = "ATTACK" /\ current_player_index = 1
    /\ health[0] = 6
    /\ events = <<[type |-> "card_attack", attacker |-> "giant", defender |-> "scout",
                   attack_damage |-> 7, slot |-> 0],
                  [type |-> "card_destroyed", card |-> "scout", slot |-> 0],
                  [type |-> "player_damage", player |-> 0, damage |-> 4, source |-> "giant",
                   excess |-> TRUE]>>

\* C5: an attack-phase process_turn never changes the attacking player's
\* health, also when a surviving defender card destroys the attacker's card
\* with more damage than it had hp.
C5_NoCounterBleed ==
    [][AttackStep => health'[current_player_index] = health[current_player_index]]_vars
C5_Witness ==
    /\ lastOp = "process_turn" /\ current_phase = "ATTACK"
    /\ \E i \in 1 .. Len(events) - 1 :
          /\ events[i].type = "card_counter_attack"
          /\ events[i].attack_damage > CardHp[events[i].defender]
          /\ events[i + 1].type = "card_destroyed"
          /\ events[i + 1].card = events[i].defender
          /\ field[current_player_index][events[i].slot] = NONE

C7_CheckGameOver ==
    [][/\ lastOp' = "check_game_over" =>
            IF health[0] <= 0
            THEN game_over' /\ winner' = "opponent" /\ ret'.ok
            ELSE IF health[1] <= 0
            THEN game_over' /\ winner' = "player" /\ ret'.ok
            ELSE ~ret'.ok /\ game_over' = game_over /\ winner' = winner
       /\ AttackStep =>
            IF health'[0] <= 0
            THEN game_over' /\ winner' = "opponent"
            ELSE IF health'[1] <= 0
            THEN game_over' /\ winner' = "player"
            ELSE game_over' = game_over /\ winner' = winner]_vars
C7_Witness ==
    /\ lastOp = "check_game_over" /\ ret.ok
    /\ health[0] = 0 /\ health[1] = 0
    /\ game_over /\ winner = "opponent"

\* C8: once check_game_over has returned true, game_over stays true and the
\* winner stays the same player under every further engine operation.
C8_OutcomeLatched ==
    [][(stage = "match" /\ game_over) => (game_over' /\ winner' = winner)]_vars

\* C9: once game_over is true, process_turn and advance_phase change nothing:
\* phase, active index, turn_number and both players' health, energy, hand,
\* field, deck and credits stay as they are.
C9_NoOpAfterGameOver ==
    [][(game_over /\ lastOp' \in {"process_turn", "advance_phase"}) =>
          UNCHANGED <<current_phase, current_player_index, turn_number,
                      health, energy, hand, field, deck, credits>>]_vars

\* C10: after start_game, some player's health is 0 exactly when game_over is
\* true.
C10_GameOverIffDead ==
    stage # "constructed" => (game_over <=> (health[0] = 0 \/ health[1] = 0))
C10_Witness ==
    /\ stage = "match" /\ lastOp = "process_turn" /\ current_phase = "ATTACK"
    /\ health[1] = 0 /\ health[0] > 0
    /\ game_over /\ winner = "player"

\* a play_card step is the outcome of the call for some player and indices,
\* and changes nothing but that player's energy, hand and field
PlayCardStepOf(p, h, f) ==
    LET o == PlayCardOutcome(p, h, f)
    IN  /\ ret' = Ret(o.ok, o.msg)
        /\ events' = o.events
        /\ energy' = [energy EXCEPT ![p] = o.energy]
        /\ hand' = [hand EXCEPT ![p] = o.hand]
        /\ field' = [field EXCEPT ![p] = o.field]
PlayCardStep ==
    lastOp' = "play_card" =>
        /\ \E p \in Players, h \in HandIndices, f \in FieldIndices : PlayCardStepOf(p, h, f)
        /\ UNCHANGED <<gameVars, health, deck, credits, card_hp>>

\* C11: every successful play_card(hand_index, field_index) takes exactly the
\* card's cost from the energy, which stays >= 0, puts the card that was at
\* hand[hand_index] into field[field_index], leaves the hand one card shorter
\* with the other cards in their order, and changes no other slot, nor health,
\* deck or credits.
C11_PlayCardExact ==
    /\ [](\A p \in Players, h \in HandIndices, f \in FieldIndices :
            LET o == PlayCardOutcome(p, h, f)
            IN  o.ok =>
                  /\ 0 <= h /\ h < Len(hand[p]) /\ f \in Slots
                  /\ o.energy = energy[p] - CardCost[hand[p][h + 1]]
                  /\ o.energy >= 0
                  /\ o.field[f] = hand[p][h + 1]
                  /\ Len(o.hand) = Len(hand[p]) - 1
                  /\ \A i \in 1 .. Len(o.hand) :
                        o.hand[i] = hand[p][IF i < h + 1 THEN i ELSE i + 1]
                  /\ \A s \in Slots \ {f} : o.field[s] = field[p][s])
    /\ [][PlayCardStep]_vars
C11_Witness ==
    /\ lastOp = "play_card" /\ ret.ok /\ current_phase = "PLAY" /\ current_player_index = 0
    /\ energy[0] = 0
    /\ field[0] = [s \in Slots |-> IF s = 2 THEN "knight" ELSE NONE]
    /\ hand[0] = <<"scout">>

\* C12: Player.play_card checks, in this order, hand_index in range,
\* field_index in [0,3), target slot empty, energy >= cost; for any integer
\* indices it fails with the message of the first check that does not hold and
\* then leaves energy, hand and field unchanged; a play into an occupied slot
\* always fails.
C12_FirstFailureWins ==
    /\ [](\A p \in Players, h \in HandIndices, f \in FieldIndices :
            LET o == PlayCardOutcome(p, h, f)
                expected ==
                    IF ~(0 <= h /\ h < Len(hand[p])) THEN "Invalid hand index"
                    ELSE IF ~(0 <= f /\ f < PLAYER_FIELD_SIZE) THEN "Invalid field index"
                    ELSE IF field[p][f] # NONE THEN "Field position already occupied"
                    ELSE IF energy[p] < CardCost[hand[p][h + 1]] THEN "Not enough energy"
                    ELSE ""
            IN  PlayCardGate(current_phase, current_player_index, p) = "" =>
                  IF expected = ""
                  THEN o.ok
                  ELSE /\ ~o.ok
                       /\ o.msg = expected
                       /\ o.energy = energy[p] /\ o.hand = hand[p] /\ o.field = field[p])
    /\ [][PlayCardStep]_vars
C12_Witness ==
    /\ lastOp = "play_card" /\ ~ret.ok /\ ret.msg = "Field position already occupied"
    /\ current_phase = "PLAY"
    /\ hand[current_player_index] # <<>>
    /\ energy[current_player_index] = 0

\* C13: PlayerController.play_card fails with the wrong-phase message when the
\* phase is not PLAY (also when it is not the player's turn either), else with
\* the not-your-turn message when the player is not the active one, in both
\* cases with no events and the game state unchanged; otherwise its success
\* and message are those of Player.play_card on the same arguments.
C13_ControllerGate ==
    /\ [](\A p \in Players, h \in HandIndices, f \in FieldIndices :
            LET o == PlayCardOutcome(p, h, f)
                r == PlayerPlayCard(energy[p], hand[p], field[p], h, f)
                unchanged == /\ o.events = <<>>
                             /\ o.energy = energy[p] /\ o.hand = hand[p] /\ o.field = field[p]
            IN  IF current_phase # "PLAY"
                THEN /\ ~o.ok /\ o.msg = "You can only play cards during the play phase"
                     /\ unchanged
                ELSE IF p # current_player_index
                THEN /\ ~o.ok /\ o.msg = "It's not your turn"
                     /\ unchanged
                ELSE o.ok = r.ok /\ o.msg = r.msg)
    /\ [][PlayCardStep]_vars
C13_Witness ==
    /\ lastOp = "play_card" /\ ret = Ret(FALSE, "It's not your turn")
    /\ current_phase = "PLAY" /\ current_player_index = 1
    /\ hand[0] # <<>> /\ energy[0] > 0

\* C14: Card.take_damage(d) for d >= 0 sets hp to max(0, hp_before - d), which
\* is never negative and never more than hp_before, returns max(0, d -
\* hp_before), and changes nothing but that card's hp.
DamageValues == UNION {0 .. CardAttack[c] : c \in CardIds}
C14_CardTakeDamage ==
    /\ [](\A c \in CardIds, d \in DamageValues :
            LET td == CardTakeDamage(card_hp[c], d)
            IN  /\ td.hp = Max(0, card_hp[c] - d)
                /\ td.hp >= 0 /\ td.hp <= card_hp[c]
                /\ td.excess = Max(0, d - card_hp[c]))
    /\ [][AttackStep =>
            /\ AttackStepResult
            /\ \A s \in Slots :
                  LET att == current_player_index
                      pre == LaneBefore(s)
                      post == LaneAfter(s)
                      card == pre.field[att][s]
                      dc == pre.field[1 - att][s]
                      mid == AttackCard(pre, att, s)
                  IN  (card # NONE /\ dc # NONE) =>
                          /\ mid.card_hp = [pre.card_hp EXCEPT
                                              ![dc] = Max(0, @ - CardAttack[card])]
                          /\ mid.health[1 - att]
                               = Max(0, pre.health[1 - att]
                                          - Max(0, CardAttack[card] - pre.card_hp[dc]))
                          /\ post.card_hp
                               = IF mid.card_hp[dc] > 0
                                 THEN [mid.card_hp EXCEPT ![card] = Max(0, @ - CardAttack[dc])]
                                 ELSE mid.card_hp]_vars
C14_Witness ==
    /\ lastOp = "process_turn" /\ current_phase = "ATTACK" /\ current_player_index = 1
    /\ field[0][0] = "knight" /\ field[1][0] = NONE
    /\ card_hp["knight"] = 2 /\ card_hp["imp"] = 0
    /\ health[0] = PLAYER_STARTING_HEALTH

\* C15: in every state from start_game on, both players have
\* 0 <= health <= max_health and 0 <= energy <= max_energy, and each field has
\* exactly 3 slots.
C15_Ranges ==
    stage # "constructed" =>
        \A p \in Players :
            /\ 0 <= health[p] /\ health[p] <= max_health[p]
            /\ 0 <= energy[p] /\ energy[p] <= max_energy[p]
            /\ DOMAIN field[p] = 0 .. 2
C15_Witness ==
    /\ stage = "match" /\ lastOp = "process_turn" /\ current_phase = "ATTACK"
    /\ health[1] = 0 /\ health[0] = max_health[0]
    /\ energy[0] = 0 /\ energy[1] = max_energy[1]

\* C16: between engine operations no field slot of either player holds a card
\* with hp 0: a card whose hp reaches 0 in attack resolution is off its
\* owner's field when that process_turn returns.
C16_NoDeadCardInPlay ==
    stage = "match" =>
        \A p \in Players, s \in Slots :
            field[p][s] # NONE => card_hp[field[p][s]] > 0

\* C17: damage applied to a card on the field changes the hp of no card in a
\* hand or a deck of either player, and every card drawn from a deck enters
\* the hand with its template's full hp.
C17_CardsIndependent ==
    [][/\ AttackStep =>
            \A p \in Players :
                /\ \A i \in 1 .. Len(hand[p]) : card_hp'[hand[p][i]] = card_hp[hand[p][i]]
                /\ \A i \in 1 .. Len(deck[p]) : card_hp'[deck[p][i]] = card_hp[deck[p][i]]
       /\ (lastOp' = "process_turn" /\ current_phase = "DRAW"
             /\ deck[current_player_index] # <<>>) =>
            card_hp'[Head(deck[current_player_index])]
              = CardHp[Head(deck[current_player_index])]]_vars

\* C18: process_turn in the DRAW phase makes the active player draw one card:
\* from a non-empty deck the top card is removed and appended to the end of
\* the hand and exactly one draw event is returned; from an empty deck hand
\* and deck are unchanged and exactly one deck_empty event is returned; the
\* other player's deck and hand are unchanged.
C18_DrawPhase ==
    [][(lastOp' = "process_turn" /\ current_phase = "DRAW") =>
        LET p == current_player_index
        IN  /\ IF Len(deck[p]) > 0
               THEN /\ hand'[p] = hand[p] \o <<deck[p][1]>>
                    /\ deck'[p] = SubSeq(deck[p], 2, Len(deck[p]))
                    /\ events' = <<[type |-> "draw", player |-> p, card |-> deck[p][1]]>>
               ELSE /\ hand'[p] = hand[p]
                    /\ deck'[p] = deck[p]
                    /\ events' = <<[type |-> "deck_empty", player |-> p]>>
            /\ hand'[1 - p] = hand[1 - p]
            /\ deck'[1 - p] = deck[1 - p]]_vars
C18_Witness ==
    /\ lastOp = "process_turn" /\ current_phase = "DRAW" /\ current_player_index = 0
    /\ hand[0] = <<"giant", "giant", "giant", "giant", "giant">>
    /\ deck[0] = <<"knight">>
    /\ events = <<[type |-> "draw", player |-> 0, card |-> "giant"]>>

\* C19: an attack-phase process_turn that ends the match with the human player
\* as winner adds exactly one victory reward to the human player's credits (20
\* if the opponent's name contains 'easy', else 30 if it contains 'hard', else
\* 25) and emits a credits_awarded event of that amount; every other operation
\* leaves the credits of both players unchanged.
C19_RewardOnlyOnWin ==
    [][LET reward == IF NameContains(opponent_name, "easy") THEN 20
                     ELSE IF NameContains(opponent_name, "hard") THEN 30
                     ELSE 25
       IN  IF AttackStep /\ ~game_over /\ game_over' /\ winner' = "player"
           THEN /\ credits' = [credits EXCEPT ![0] = @ + reward]
                /\ Len(EventsOfType(events', "credits_awarded")) = 1
                /\ EventsOfType(events', "credits_awarded")[1].amount = reward
           ELSE credits' = credits]_vars

\* C20: when the opponent's display name contains no difficulty marker, the
\* victory reward follows the number of rare plus epic cards in the
\* opponent's deck: 9 or more gives the hard reward, 2 or fewer the easy
\* reward, anything else the normal reward.
OpponentCards ==
    deck[1] \o hand[1] \o SelectSeq([i \in 1 .. PLAYER_FIELD_SIZE |-> field[1][i - 1]],
                                    LAMBDA c : c # NONE)
RareEpicCount(cards) ==
    Len(SelectSeq(cards, LAMBDA c : CardRarity[c] \in {"rare", "epic"}))
C20_TierFromDeck ==
    [][(/\ AttackStep
        /\ credits'[0] # credits[0]
        /\ ~NameContains(opponent_name, "easy")
        /\ ~NameContains(opponent_name, "normal")
        /\ ~NameContains(opponent_name, "hard")) =>
          credits'[0] - credits[0]
            = IF RareEpicCount(OpponentCards) >= 9 THEN VICTORY_REWARD_HARD
              ELSE IF RareEpicCount(OpponentCards) <= 2 THEN VICTORY_REWARD_EASY
              ELSE VICTORY_REWARD_NORMAL]_vars

\* a step of AIController.take_turn
TakeTurnStep == lastOp' = "take_turn"
\* the AI's field slots that are empty
EmptyAISlots == {s \in Slots : field[1][s] = NONE}

\* C21: every take_turn call returns, having played at most one card per AI
\* field slot that was empty on entry, so at most 3, each into a different one
\* of those slots; when every card in the AI hand costs more than the AI's
\* energy, or all 3 AI slots are full, it returns no event and changes no
\* state.
C21_TakeTurnBounded ==
    /\ [](stage = "match" => AIPlayCards(personality, difficulty) # {})
    /\ [][TakeTurnStep =>
            /\ Len(events') <= Cardinality(EmptyAISlots)
            /\ Len(events') <= PLAYER_FIELD_SIZE
            /\ \A i \in 1 .. Len(events') :
                  /\ events'[i].type = "ai_card_played"
                  /\ events'[i].field_position \in EmptyAISlots
                  /\ \A j \in 1 .. Len(events') :
                        i # j => events'[i].field_position # events'[j].field_position
            /\ Len(hand'[1]) = Len(hand[1]) - Len(events')
            /\ Cardinality({s \in Slots : field'[1][s] = NONE})
                 = Cardinality(EmptyAISlots) - Len(events')
            /\ (\/ \A i \in 1 .. Len(hand[1]) : CardCost[hand[1][i]] > energy[1]
                \/ EmptyAISlots = {}) =>
                  /\ events' = <<>>
                  /\ UNCHANGED <<setupVars, gameVars, playerVars, card_hp, advances>>]_vars
\* the call plays one imp into the last empty slot and stops with two imps it
\* could still pay for in its hand
C21_Witness ==
    /\ lastOp = "take_turn" /\ current_player_index = 1 /\ current_phase = "PLAY"
    /\ Len(events) = 1 /\ events[1].field_position = 1
    /\ field[1] = FieldOf(<<"scout", "imp", "imp">>)
    /\ hand[1] = <<"imp", "imp">>
    /\ energy[1] = 2

\* the number of copies of card c in a hand
Copies(hd, c) == Cardinality({i \in 1 .. Len(hd) : hd[i] = c})
\* the energy the cards of the first n events cost together
RECURSIVE CostOfPlays(_, _)
CostOfPlays(evs, n) ==
    IF n = 0 THEN 0 ELSE CostOfPlays(evs, n - 1) + CardCost[evs[n].card]

\* C22: whatever the difficulty, the personality and the jitter, every card
\* take_turn places cost no more than the AI's energy at that moment and goes
\* into an AI slot that was empty; each ai_card_played event stands for one
\* successful play (one card less in the AI hand, its cost off the energy, its
\* slot filled with it) and carries the AI's energy right after that play;
\* take_turn never changes the human player's health, energy, hand, field or
\* deck.
C22_AIMovesLegal ==
    [][TakeTurnStep =>
        /\ \A i \in 1 .. Len(events') :
              LET e == events'[i]
                  before == energy[1] - CostOfPlays(events', i - 1)
              IN  /\ e.type = "ai_card_played"
                  /\ CardCost[e.card] <= before
                  /\ e.energy_remaining = before - CardCost[e.card]
                  /\ field[1][e.field_position] = NONE
                  /\ \A j \in 1 .. (i - 1) : events'[j].field_position # e.field_position
                  /\ field'[1][e.field_position] = e.card
        /\ \A s \in Slots :
              (\A i \in 1 .. Len(events') : events'[i].field_position # s) =>
                  field'[1][s] = field[1][s]
        /\ energy'[1] = energy[1] - CostOfPlays(events', Len(events'))
        /\ Len(hand'[1]) = Len(hand[1]) - Len(events')
        /\ \A c \in CardIds :
              Copies(hand'[1], c)
                = Copies(hand[1], c)
                  - Cardinality({i \in 1 .. Len(events') : events'[i].card = c})
        /\ health'[0] = health[0] /\ energy'[0] = energy[0] /\ hand'[0] = hand[0]
        /\ field'[0] = field[0] /\ deck'[0] = deck[0]]_vars
\* an easy AI plays the cheaper imp before the scout and ends with no energy
C22_Witness ==
    /\ lastOp = "take_turn" /\ difficulty = "easy"
    /\ Len(events) = 2
    /\ events[1].card = "imp" /\ events[1].energy_remaining = 2
    /\ events[2].card = "scout" /\ events[2].energy_remaining = 0
    /\ energy[1] = 0 /\ hand[1] = <<>>

\* C23: the 30-card and 3-copies limits are advisory: add_card appends the
\* card whatever the deck already holds and draw takes the top card whatever
\* the deck holds; only validate reports a deck over a limit.
C23_LimitsAdvisory ==
    [][/\ lastOp' = "add_card" =>
            /\ ret'.ok
            /\ Len(deck'[0]) = Len(deck[0]) + 1
            /\ SubSeq(deck'[0], 1, Len(deck[0])) = deck[0]
       /\ (lastOp' = "draw" /\ deck[0] # <<>>) =>
            /\ ret' = Ret(TRUE, Head(deck[0]))
            /\ deck'[0] = Tail(deck[0])]_vars

\* C24: a defender card counter-attacks only if it survived the hit. In a lane
\* where the attacker's attack >= the defender card's hp there is no
\* card_counter_attack event and the attacker card keeps its hp and its slot;
\* in a lane where attack < defender hp the attacker card's hp becomes
\* max(0, hp - defender.attack), there is exactly one card_counter_attack
\* event, and the attacker's slot is cleared, with a card_destroyed event for
\* it, exactly when that hp is 0.
C24_CounterAttack ==
    [][AttackStep =>
        \A s \in Slots :
            LET att == current_player_index
                card == field[att][s]
                dc == field[1 - att][s]
                pre == LaneBefore(s)
                post == LaneAfter(s)
                destroyed == [type |-> "card_destroyed", card |-> card, slot |-> s]
            IN  (card # NONE /\ dc # NONE) =>
                    IF CardAttack[card] >= pre.card_hp[dc]
                    THEN /\ EventsOfType(LaneEvents(s), "card_counter_attack") = <<>>
                         /\ post.card_hp[card] = pre.card_hp[card]
                         /\ post.field[att][s] = card
                         /\ field'[att][s] = card
                    ELSE /\ post.card_hp[card] = Max(0, pre.card_hp[card] - CardAttack[dc])
                         /\ EventsOfType(LaneEvents(s), "card_counter_attack")
                              = <<[type |-> "card_counter_attack", attacker |-> dc,
                                   defender |-> card, attack_damage |-> CardAttack[dc],
                                   slot |-> s]>>
                         /\ (post.field[att][s] = NONE) <=> (post.card_hp[card] = 0)
                         /\ (field'[att][s] = NONE) <=> (post.card_hp[card] = 0)
                         /\ (\E k \in 1 .. Len(LaneEvents(s)) : LaneEvents(s)[k] = destroyed)
                              <=> (post.card_hp[card] = 0)]_vars

\* the events with which a lane's resolution starts: the attack on the
\* defender's card, or the direct hit on the defender
IsLaneStart(e) == e.type = "card_attack" \/ (e.type = "player_damage" /\ ~e.excess)
\* the slots in which the attacker has a card, in slot order
RECURSIVE OccupiedSlots(_, _)
OccupiedSlots(fd, n) ==
    IF n = 0 THEN <<>>
    ELSE OccupiedSlots(fd, n - 1) \o (IF fd[n - 1] # NONE THEN <<n - 1>> ELSE <<>>)
\* the slot an event of a lane names, -1 for an event without one
SlotOf(e) == IF e.type \in {"card_attack", "card_destroyed", "card_counter_attack"}
             THEN e.slot ELSE -1

\* C25: one attack-phase process_turn resolves all three lanes in the order
\* 0, 1, 2: every lane in which the attacker has a card is resolved, also when
\* the defender's health is already 0 after an earlier lane; the game-over
\* check is made once, after the last lane (at most one game_over event, after
\* every combat event); the combat events are ordered by non-decreasing lane.
C25_AllLanesInOrder ==
    [][AttackStep =>
        LET att == current_player_index
            occupied == OccupiedSlots(field[att], PLAYER_FIELD_SIZE)
            starts == SelectSeq(events', IsLaneStart)
            slotted == SelectSeq(events', LAMBDA e : SlotOf(e) # -1)
            combat == SelectSeq(events', LAMBDA e : e.type \notin {"credits_awarded", "game_over"})
        IN  /\ Len(starts) = Len(occupied)
            /\ \A k \in 1 .. Len(starts) :
                  IF starts[k].type = "card_attack"
                  THEN /\ starts[k].slot = occupied[k]
                       /\ starts[k].attacker = field[att][occupied[k]]
                       /\ field[1 - att][occupied[k]] # NONE
                  ELSE /\ starts[k].source = field[att][occupied[k]]
                       /\ field[1 - att][occupied[k]] = NONE
            /\ \A k \in 1 .. Len(slotted) - 1 : SlotOf(slotted[k]) <= SlotOf(slotted[k + 1])
            /\ SubSeq(events', 1, Len(combat)) = combat
            /\ Len(EventsOfType(events', "game_over")) <= 1
            /\ \A s \in Slots :
                  (field[att][s] # NONE /\ LaneBefore(s).health[1 - att] = 0) =>
                      LaneEvents(s) # <<>>]_vars
\* three imps attack a player with 1 health left: the first lane brings the
\* health to 0 and the other two lanes still hit
C25_Witness ==
    /\ lastOp = "process_turn" /\ current_phase = "ATTACK" /\ current_player_index = 1
    /\ field[1] = FieldOf(<<"imp", "imp", "imp">>)
    /\ field[0] = EmptyField
    /\ health[0] = 0
    /\ Len(events) = 4
    /\ \A k \in 1 .. 3 : events[k].type = "player_damage" /\ events[k].source = "imp"
    /\ events[4] = [type |-> "game_over", winner |-> "opponent"]

\* C26: process_turn makes no phase transition: in every phase it leaves
\* current_phase, the active player index and turn_number as they are; in the
\* PLAY and END phases it changes no state at all and returns no events.
C26_ProcessTurnFrame ==
    [][lastOp' = "process_turn" =>
        /\ UNCHANGED <<current_phase, current_player_index, turn_number>>
        /\ ret'.msg = current_phase
        /\ current_phase \in {"PLAY", "END"} =>
              /\ events' = <<>>
              /\ UNCHANGED <<setupVars, gameVars, playerVars, card_hp, advances>>]_vars
\* process_turn called in the opponent's PLAY phase with cards in its hand
C26_Witness ==
    /\ lastOp = "process_turn" /\ ret.msg = "PLAY" /\ current_phase = "PLAY"
    /\ current_player_index = 1 /\ hand[1] # <<>> /\ energy[1] = max_energy[1]
    /\ events = <<>> /\ advances = 5

\* C27: in the events an attack-phase process_turn returns, a game_over event
\* is present exactly when game_over is true on return; it is the last event
\* and names the winner of the state; a credits_awarded event, if present,
\* comes immediately before it; within a lane card_attack comes before the
\* lane's card_destroyed, which comes before the lane's excess player_damage.
C27_EventOrder ==
    [][AttackStep =>
        LET n == Len(events')
            at(t) == {k \in 1 .. n : events'[k].type = t}
        IN  /\ (at("game_over") # {}) <=> game_over'
            /\ at("game_over") \subseteq {n}
            /\ at("game_over") # {} =>
                  events'[n].winner = winner' /\ winner' \in {"player", "opponent"}
            /\ \A k \in at("credits_awarded") : k = n - 1 /\ events'[n].type = "game_over"
            /\ \A k \in at("card_destroyed") :
                  /\ k > 1
                  /\ \/ /\ events'[k - 1].type = "card_attack"
                        /\ events'[k - 1].slot = events'[k].slot
                        /\ events'[k - 1].defender = events'[k].card
                     \/ /\ events'[k - 1].type = "card_counter_attack"
                        /\ events'[k - 1].slot = events'[k].slot
                        /\ events'[k - 1].defender = events'[k].card
                        /\ k > 2
                        /\ events'[k - 2].type = "card_attack"
                        /\ events'[k - 2].slot = events'[k].slot
            /\ \A k \in at("player_damage") :
                  events'[k].excess =>
                      /\ k > 2
                      /\ events'[k - 1].type = "card_destroyed"
                      /\ events'[k - 2].type = "card_attack"
                      /\ events'[k - 2].slot = events'[k - 1].slot
                      /\ events'[k - 2].attacker = events'[k].source
                      /\ events'[k - 2].defender = events'[k - 1].card]_vars
\* the player's scout destroys an imp in lane 2 and the excess ends a match
\* against a hard opponent with 4 health: the reward and game_over follow
C27_Witness ==
    /\ lastOp = "process_turn" /\ current_phase = "ATTACK" /\ current_player_index = 0
    /\ game_over /\ winner = "player" /\ health[1] = 0
    /\ Len(events) >= 5
    /\ events[Len(events)] = [type |-> "game_over", winner |-> "player"]
    /\ events[Len(events) - 1].type = "credits_awarded"
    /\ events[Len(events) - 1].amount = VICTORY_REWARD_HARD
    /\ events[Len(events) - 2].type = "player_damage" /\ events[Len(events) - 2].excess
    /\ events[Len(events) - 3].type = "card_destroyed"
    /\ events[Len(events) - 4].type = "card_attack"

\* the number of cards draw_hand(count) is to take from a deck
HandSize(cards, count) == IF count <= 0 THEN 0 ELSE Min(count, Len(cards))

\* C28: draw on a non-empty deck removes and returns the card at position 0
\* and keeps the other cards in order; on an empty deck it returns None and
\* leaves the deck empty. draw_hand(n) returns the first min(n, size) cards in
\* deck order, none for n <= 0, and removes exactly those cards.
C28_DeckDraw ==
    /\ [](\A count \in DrawCounts :
            LET r == DeckDrawHand(deck[0], count)
                n == HandSize(deck[0], count)
            IN  /\ r.drawn = SubSeq(deck[0], 1, n)
                /\ r.cards = SubSeq(deck[0], n + 1, Len(deck[0]))
                /\ Len(r.drawn) <= Max(0, count))
    /\ [][/\ lastOp' = "draw" =>
               /\ deck[0] # <<>> =>
                     /\ ret' = Ret(TRUE, deck[0][1])
                     /\ deck'[0] = SubSeq(deck[0], 2, Len(deck[0]))
               /\ deck[0] = <<>> => ret' = Ret(FALSE, NONE) /\ deck'[0] = <<>>
          /\ lastOp' = "draw_hand" =>
               \E count \in DrawCounts :
                   /\ hand'[0] = SubSeq(deck[0], 1, HandSize(deck[0], count))
                   /\ deck'[0] = SubSeq(deck[0], HandSize(deck[0], count) + 1, Len(deck[0]))]_vars
\* draw_hand(2) on the deck imp, scout, scout, imp
C28_Witness ==
    /\ lastOp = "draw_hand"
    /\ hand[0] = <<"imp", "scout">>
    /\ deck[0] = <<"scout", "imp">>

\* C29: can_play_card agrees with play_card: in every state, for every player
\* and every hand and field index, can_play_card returns True exactly when
\* play_card called in that state would succeed, and when both fail they give
\* the same message; can_play_card changes no state.
C29_CanPlayAgrees ==
    /\ [](\A p \in Players : \A h \in HandIndices : \A f \in FieldIndices :
            LET can == CanPlayCardResult(p, h, f)
                played == PlayCardOutcome(p, h, f)
            IN  /\ can.ok <=> played.ok
                /\ ~can.ok => can.msg = played.msg)
    /\ [][lastOp' = "can_play_card" =>
            /\ UNCHANGED <<setupVars, gameVars, playerVars, card_hp, advances>>
            /\ \E p \in Players : \E h \in HandIndices : \E f \in FieldIndices :
                  ret' = CanPlayCardResult(p, h, f)]_vars
\* can_play_card says yes for the imp of a player who cannot pay for the scout
\* next to it, and play_card in that state puts the imp into slot 1
C29_Witness ==
    /\ lastOp = "can_play_card" /\ ret = Ret(TRUE, "Card can be played")
    /\ current_phase = "PLAY" /\ current_player_index = 0
    /\ hand[0] = <<"scout", "imp">> /\ energy[0] = 1
    /\ field[0] = FieldOf(<<"scout", NONE, "imp">>)
    /\ CanPlayCardResult(0, 1, 1).ok /\ PlayCardOutcome(0, 1, 1).ok
    /\ ~CanPlayCardResult(0, 0, 1).ok /\ ~PlayCardOutcome(0, 0, 1).ok

\* the program state the read-only operations must leave alone
ProgramVars == <<setupVars, gameVars, playerVars, card_hp, advances>>
\* the player's own PLAY phase
OwnPlayPhase(p) == current_phase = "PLAY" /\ current_player_index = p

\* C30: end_play_phase, get_playable_cards and get_card_placement_options
\* change no state. end_play_phase succeeds, with one phase_ended event,
\* exactly when the phase is PLAY and the player is active, and never changes
\* current_phase; the two projections return an empty list outside the
\* player's own PLAY phase, and otherwise one entry per hand card with
\* playable = (cost <= energy) and one entry per field slot with
\* available = (slot empty).
C30_ReadOnly ==
    /\ [](\A p \in Players :
            LET ended == EndPlayPhaseResult(p)
                cards == GetPlayableCardsResult(p)
                slots == GetCardPlacementOptionsResult(p)
            IN  /\ ended.ok <=> OwnPlayPhase(p)
                /\ ended.events = IF OwnPlayPhase(p)
                                  THEN <<[type |-> "phase_ended", player |-> p,
                                          phase |-> "PLAY"]>>
                                  ELSE <<>>
                /\ ~OwnPlayPhase(p) => cards = <<>> /\ slots = <<>>
                /\ OwnPlayPhase(p) =>
                      /\ Len(cards) = Len(hand[p])
                      /\ \A i \in 1 .. Len(cards) :
                            /\ cards[i].index = i - 1
                            /\ cards[i].card = hand[p][i]
                            /\ cards[i].playable <=> (CardCost[hand[p][i]] <= energy[p])
                      /\ Len(slots) = PLAYER_FIELD_SIZE
                      /\ \A i \in 1 .. Len(slots) :
                            /\ slots[i].index = i - 1
                            /\ slots[i].available <=> (field[p][i - 1] = NONE))
    /\ [][/\ lastOp' = "end_play_phase" =>
               /\ UNCHANGED ProgramVars
               /\ \E p \in Players :
                     /\ ret'.ok = EndPlayPhaseResult(p).ok
                     /\ events' = EndPlayPhaseResult(p).events
          /\ lastOp' = "get_playable_cards" =>
               /\ UNCHANGED ProgramVars
               /\ \E p \in Players : events' = GetPlayableCardsResult(p)
          /\ lastOp' = "get_card_placement_options" =>
               /\ UNCHANGED ProgramVars
               /\ \E p \in Players : events' = GetCardPlacementOptionsResult(p)]_vars
\* get_playable_cards in the opponent's PLAY phase with energy 1: the imp is
\* playable, the knight and the scout are not
C30_Witness ==
    /\ lastOp = "get_playable_cards" /\ current_phase = "PLAY" /\ current_player_index = 1
    /\ hand[1] = <<"knight", "imp", "scout">> /\ energy[1] = 1
    /\ Len(events) = 3
    /\ ~events[1].playable /\ events[2].playable /\ ~events[3].playable

\* C31: when take_turn returns from the AI's PLAY phase the AI has no legal
\* move left: no card in its hand costs at most its remaining energy, or all 3
\* of its field slots are occupied.
C31_NoMoveLeft ==
    [][(TakeTurnStep /\ current_player_index = 1 /\ current_phase = "PLAY") =>
          \/ \A i \in 1 .. Len(hand'[1]) : CardCost[hand'[1][i]] > energy'[1]
          \/ \A s \in Slots : field'[1][s] # NONE]_vars
\* the AI plays the knight with its 3 energy and stops with an imp and a scout
\* in hand and slots still empty
C31_Witness ==
    /\ lastOp = "take_turn" /\ current_player_index = 1 /\ current_phase = "PLAY"
    /\ events # <<>> /\ events[1].card = "knight"
    /\ energy[1] = 0 /\ hand[1] = <<"imp", "scout">>
    /\ \E s \in Slots : field[1][s] = NONE

\* C32: take_turn acts only in the AI's own PLAY phase: when the active player
\* is not the opponent, or the phase is not PLAY, it returns no events and
\* changes no state; in every case it leaves current_phase, the active player
\* index and turn_number as they are.
C32_OwnPlayPhaseOnly ==
    [][TakeTurnStep =>
        /\ UNCHANGED <<current_phase, current_player_index, turn_number>>
        /\ (current_player_index # 1 \/ current_phase # "PLAY") =>
              /\ events' = <<>>
              /\ UNCHANGED <<setupVars, gameVars, playerVars, card_hp, advances>>]_vars
\* take_turn called in the human player's PLAY phase while the AI holds three
\* imps, 3 energy and an empty field
C32_Witness ==
    /\ lastOp = "take_turn" /\ current_player_index = 0 /\ current_phase = "PLAY"
    /\ events = <<>>
    /\ hand[1] = <<"imp", "imp", "imp">> /\ energy[1] = 3 /\ field[1] = EmptyField

\* the personalities create_for_difficulty can pick for a level string
PickedFor(level) == {r.personality : r \in CreateForDifficultyResult(level)}

\* C33: create_for_difficulty always gives a HARD AI the CONTROL personality,
\* never gives an EASY AI CONTROL (it picks among BALANCED, AGGRESSIVE and
\* DEFENSIVE), may give a NORMAL AI any of the four, and takes every string
\* that is not a difficulty name as NORMAL.
C33_PersonalityPools ==
    /\ [](\A level \in DifficultyLevels :
            /\ \A r \in CreateForDifficultyResult(level) :
                  r.difficulty = IF Lower(level) \in {"easy", "hard"} THEN Lower(level)
                                 ELSE "normal"
            /\ PickedFor(level) =
                  IF Lower(level) = "hard" THEN {"control"}
                  ELSE IF Lower(level) = "easy" THEN {"balanced", "aggressive", "defensive"}
                  ELSE {"aggressive", "defensive", "balanced", "control"})
    /\ [][lastOp' = "create_for_difficulty" =>
            /\ difficulty' = "hard" => personality' = "control"
            /\ difficulty' = "easy" => personality' \in {"balanced", "aggressive", "defensive"}
            /\ difficulty' \in {"easy", "normal", "hard"}
            /\ \E level \in DifficultyLevels :
                  [difficulty |-> difficulty', personality |-> personality']
                      \in CreateForDifficultyResult(level)
            /\ UNCHANGED <<stage, opponent_name, gameVars, playerVars, card_hp, advances>>]_vars
\* a controller created with the defensive personality for an easy match, from
\* a game that was set up with a hard opponent
C33_Witness ==
    /\ lastOp = "create_for_difficulty"
    /\ difficulty = "easy" /\ personality = "defensive"
    /\ opponent_name = <<"Hard", "AI", "Opponent">>

\* C34: start_game puts the match into the initial state whatever the state
\* before: active index 0, phase DRAW, turn 1, game_over false, no winner, both
\* players at max_health and max_energy with an empty hand and three empty
\* slots; each deck holds exactly the cards it held before the call, in some
\* order.
C34_StartGameResets ==
    [][lastOp' = "start_game" =>
          /\ current_player_index' = 0
          /\ current_phase' = "DRAW"
          /\ turn_number' = 1
          /\ game_over' = FALSE
          /\ winner' = NONE
          /\ \A p \in Players :
                /\ health'[p] = max_health[p]
                /\ energy'[p] = max_energy[p]
                /\ hand'[p] = <<>>
                /\ \A s \in Slots : field'[p][s] = NONE
                /\ Len(deck'[p]) = Len(deck[p])
                /\ \A c \in CardIds : Copies(deck'[p], c) = Copies(deck[p], c)]_vars
\* start_game has reset a game that had been played: the knight's hp is still
\* the damaged one, the human player's three-card deck is in another order
C34_Witness ==
    /\ lastOp = "start_game"
    /\ stage = "started"
    /\ card_hp["knight"] = 2
    /\ deck[0] = <<"imp", "scout", "imp">>
    /\ health[0] = max_health[0] /\ current_phase = "DRAW"

\* the cards a player holds: deck, hand and occupied slots
CardsHeld(p) ==
    Len(deck[p]) + Len(hand[p]) + Cardinality({s \in Slots : field[p][s] # NONE})
\* the card_destroyed events of an attack phase that report a card of player p:
\* the attacking player's card is reported right after the counter-attack that
\* destroyed it, the defending player's right after the attack
DestroyedOf(evs, p, att) ==
    Cardinality({k \in 1 .. Len(evs) :
                    /\ evs[k].type = "card_destroyed"
                    /\ (p = att) <=> (k > 1 /\ evs[k - 1].type = "card_counter_attack")})

\* C35: for each player the number of cards in deck, hand and field never
\* increases once the match is set up; the draw phase, every play_card call, the
\* AI's plays and advance_phase leave it as it is; it goes down only in an
\* attack phase, by the number of that player's cards the card_destroyed events
\* report.
C35_CardsConserved ==
    [][\A p \in Players :
          /\ CardsHeld(p)' <= CardsHeld(p)
          /\ (\/ lastOp' \in {"play_card", "take_turn", "advance_phase", "draw_starting_hand"}
              \/ lastOp' = "process_turn" /\ current_phase # "ATTACK")
                => CardsHeld(p)' = CardsHeld(p)
          /\ CardsHeld(p)' < CardsHeld(p) => AttackStep
          /\ AttackStep =>
                CardsHeld(p)' = CardsHeld(p) - DestroyedOf(events', p, current_player_index)]_vars
\* an attack phase in which a counter-attack destroyed a card of the attacking
\* player, who still holds other cards
C35_Witness ==
    /\ lastOp = "process_turn"
    /\ current_phase = "ATTACK"
    /\ DestroyedOf(events, current_player_index, current_player_index) = 1
    /\ DestroyedOf(events, 1 - current_player_index, current_player_index) = 0
    /\ CardsHeld(current_player_index) >= 1

\* two lists of card ids hold the same multiset
SameCards(a, b) == Len(a) = Len(b) /\ \A c \in CardIds : Copies(a, c) = Copies(b, c)

\* C36: a match does not consume the human player's deck: the snapshot written
\* once the match is over lists the same multiset of card ids in the deck as the
\* snapshot the player was loaded from.
C36_DeckNotConsumed ==
    (stage = "match" /\ game_over) =>
        \E loaded \in LoadedDeckData : SameCards(PlayerToDict.deck.cards, loaded.cards)

\* C37: when process_turn is no longer called once game_over is true, the two
\* players never both have health 0 after start_game: an attack phase lowers
\* only the defending player's health, so a finished match has a winner whose
\* health is positive and a loser whose health is 0.
C37_NoDoubleLethal ==
    /\ [](stage # "constructed" =>
            /\ ~(health[0] <= 0 /\ health[1] <= 0)
            /\ game_over =>
                  /\ winner \in {"player", "opponent"}
                  /\ health[IF winner = "player" THEN 0 ELSE 1] > 0
                  /\ health[IF winner = "player" THEN 1 ELSE 0] = 0)
    /\ [][(lastOp' = "process_turn" /\ current_phase = "ATTACK") =>
            /\ health'[current_player_index] = health[current_player_index]
            /\ health'[1 - current_player_index] <= health[1 - current_player_index]]_vars
\* the opponent has won a match in which it had been hurt itself
C37_Witness ==
    /\ stage = "match"
    /\ game_over
    /\ winner = "opponent"
    /\ health[0] = 0
    /\ health[1] > 0 /\ health[1] < max_health[1]

\* C38: the victory reward is paid at most once per match: whatever the
\* sequence of calls after start_game, the human player's credits go up at most
\* once, and at most one credits_awarded event is emitted.
C38_RewardPaidOnce ==
    [][/\ credits'[0] >= credits[0]
       /\ credits'[0] > credits[0] => credits[0] = InitialCredits
       /\ Len(EventsOfType(events', "credits_awarded")) <= 1
       /\ (lastOp' = "process_turn" /\ Len(EventsOfType(events', "credits_awarded")) = 1)
             => credits[0] = InitialCredits]_vars

\* the sum of the damage fields of the player_damage events among the first n
\* events
RECURSIVE PlayerDamageSum(_, _)
PlayerDamageSum(evs, n) ==
    IF n = 0 THEN 0
    ELSE PlayerDamageSum(evs, n - 1)
           + (IF evs[n].type = "player_damage" THEN evs[n].damage ELSE 0)

\* C39: the events of an attack phase account for all damage to a player: the
\* defender's health afterwards is max(0, health before - S), S the sum of the
\* damage of the player_damage events the call returned, and each of these
\* events names the defending player.
C39_DamageAccounted ==
    [][(lastOp' = "process_turn" /\ current_phase = "ATTACK") =>
          LET def == 1 - current_player_index
              S == PlayerDamageSum(events', Len(events'))
          IN  /\ health'[def] = Max(0, health[def] - S)
              /\ \A k \in 1 .. Len(events') :
                    events'[k].type = "player_damage" =>
                        /\ events'[k].player = def
                        /\ events'[k].damage > 0]_vars
\* an attack phase with three direct hits that add up to more than a player's
\* full health: the defender is at 0
C39_Witness ==
    /\ lastOp = "process_turn"
    /\ current_phase = "ATTACK"
    /\ Len(EventsOfType(events, "player_damage")) = 3
    /\ PlayerDamageSum(events, Len(events)) > PLAYER_STARTING_HEALTH
    /\ health[1 - current_player_index] = 0

\* the conversion rate the rarity of a card of the database stands for
RateOf(card_id) ==
    CASE CardRarity[card_id] = "common" -> 1
      [] CardRarity[card_id] = "uncommon" -> 3
      [] CardRarity[card_id] = "rare" -> 5
      [] CardRarity[card_id] = "epic" -> 10

\* C40: add_to_collection caps ownership at 3 copies: from a collection with at
\* most 3 of each id no sequence of calls with quantity >= 0 takes an id above
\* 3; a call returns (added, credits) with added = min(quantity, 3 - owned
\* before), and the player's credits go up by (quantity - added) times the rate
\* of the card's rarity (1 common, 3 uncommon, 5 rare, 10 epic) if the id is in
\* the card database and by 0 if it is not.
C40_CollectionCapped ==
    /\ [](/\ \A id \in CollectionIds : collection[0][id] <= 3
          /\ ConversionRate("common") = 1 /\ ConversionRate("uncommon") = 3
          /\ ConversionRate("rare") = 5 /\ ConversionRate("epic") = 10
          /\ \A owned \in 0 .. 3, id \in CollectionIds, quantity \in Quantities :
                LET r == AddToCollectionResult(owned, id, quantity)
                IN  /\ r.to_add = Min(quantity, 3 - owned)
                    /\ r.owned = owned + r.to_add
                    /\ r.credits_earned = IF id \in CardIds
                                          THEN (quantity - r.to_add) * RateOf(id)
                                          ELSE 0)
    /\ [][lastOp' = "add_to_collection" =>
            /\ \E id \in CollectionIds, quantity \in Quantities :
                  LET r == AddToCollectionResult(collection[0][id], id, quantity)
                  IN  /\ ret' = [to_add |-> r.to_add, credits_earned |-> r.credits_earned]
                      /\ collection' = [collection EXCEPT ![0][id] = r.owned]
            /\ credits'[0] = credits[0] + ret'.credits_earned
            /\ credits'[1] = credits[1]
            /\ UNCHANGED <<setupVars, gameVars, health, energy, hand, field, deck, card_hp>>]_vars
\* four knights (epic) given to a player who owned none: three are added and one
\* is converted into 10 credits
C40_Witness ==
    /\ lastOp = "add_to_collection"
    /\ ret = [to_add |-> 3, credits_earned |-> 10]
    /\ collection[0]["knight"] = 3
    /\ credits[0] = InitialCredits + 10

====
